---------------------------- MODULE Spec2Model ----------------------------
(***************************************************************************)
(* Model of the hierarchical analytics core of dashboard_crurales:         *)
(* HierarchyService (tree build, statistics, flattening, TTL cache), the   *)
(* ranking pass and the analytics cache of WorkerAnalyticsService, the     *)
(* useHierarchyData hook, and the circuit breaker and retry wrapper of     *)
(* OptimizedSupabaseService.                                               *)
(*                                                                         *)
(* JavaScript strings are tuples of one-character strings; the value       *)
(* `undefined` of a string property is the tuple Undefined.  A property    *)
(* that holds an array (brigadistas, movilizadores, ciudadanos) is either  *)
(* a field of the record or absent from its domain.                        *)
(***************************************************************************)
EXTENDS Integers, Sequences, FiniteSets, TLC

VARIABLES
    \* the build pipeline applied to one gateway response
    rows,       \* gateway response being assembled (LiderWithHierarchy[])
    phase,      \* "rows" | "built" | "stats" : position of the build pipeline
    tree,       \* result of transformToHierarchicalWorkers(rows)
    stats,      \* result of the statistics pass over tree
    flatOut,    \* result of the latest flattenHierarchy(tree)
    flatCalls,  \* calls of flattenHierarchy(tree) made so far
    \* HierarchyService and its callers
    now,        \* Date.now(), in milliseconds
    cache,      \* HierarchyService.cache: entries in Map (insertion) order
    calls,      \* per operation and filter, the callers awaiting its gateway fetch
    fetchCount, \* gateway fetches issued so far
    returned,   \* what the step just taken returned or threw to a caller, if anything
    \* history kept for the properties
    stores,     \* trees stored by successful fetches and not since cleared or evicted
    order,      \* resident keys in the order in which they became resident
    \* WorkerAnalyticsService.getWorkerAnalytics
    flatWorkers,  \* the flattened workers the ranking pass is given
    analytics,  \* the WorkerAnalytics[] it returns
    ranked,     \* whether getWorkerAnalytics has returned
    \* a tree query applied to the built tree
    queried,    \* the latest searchWorkers / getWorkersByPerformance call and its result
    \* the useHierarchyData hook
    hook,       \* its React state: data, flattenedData, stats, loading, loadingStats, error
    rendered,   \* the loading flags captured by the callbacks of the latest render
    fetching,   \* fetchData invocations between their setLoading(true) and their finally
    statsFetching,  \* fetchStats invocations awaiting the gateway
    hookCalls,  \* fetchData and fetchStats invocations made so far
    hookEvent,  \* what the hook step just taken did
    \* WorkerAnalyticsService.getUnifiedAnalytics
    analyticsCache,   \* WorkerAnalyticsService.cache: entries in Map order
    unifiedWaiting,   \* per filter, the getUnifiedAnalytics calls awaiting their data
    \* history kept for the properties about clearCache
    clearedCalls,     \* per operation, the waiting callers whose fetch began before the observed clear
    staleKeys,        \* keys whose resident entry was written by such a caller
    \* OptimizedSupabaseService.circuitBreaker
    breaker,          \* its fields: failures, lastFailureTime, state
    running,          \* operations inside execute, by kind and by the state they were invoked in
    breakerEvent,     \* what the breaker step just taken did
    \* history kept for the properties about the breaker
    throwsInARow,     \* operations that threw since the last one that resolved
    failedQueriesInARow   \* getHierarchicalData calls whose query failed since the last that succeeded

flatVars == <<flatOut, flatCalls>>
queryVars == <<queried>>
buildVars == <<rows, phase, tree, stats, flatOut, flatCalls, queried>>
serviceVars == <<now, cache, calls, fetchCount, returned, stores, order>>
rankVars == <<flatWorkers, analytics, ranked>>
hookVars == <<hook, rendered, fetching, statsFetching, hookCalls, hookEvent>>
unifiedVars == <<analyticsCache, unifiedWaiting>>
clearVars == <<clearedCalls, staleKeys>>
breakerVars == <<breaker, running, breakerEvent, throwsInARow, failedQueriesInARow>>
restVars == <<hookVars, unifiedVars, clearVars, breakerVars>>
vars == <<rows, phase, tree, stats, flatOut, flatCalls, now, cache, calls, fetchCount, returned, stores, order,
          flatWorkers, analytics, ranked, queried, hookVars, unifiedVars, clearVars, breakerVars>>

(***************************** bounds *************************************)
MaxRecords == 6          \* records (lider + brigadista + movilizador) in a response
MaxFetches == 2          \* gateway fetches issued in a run (and callers waiting at once)
MaxTicks == 2            \* advances of the clock in a run
MaxWorkers == 3          \* flattened workers given to the ranking pass
MaxFlattens == 2         \* calls of flattenHierarchy on one tree

(***************************** JS values **********************************)
Undefined == <<"undefined">>
Digits == <<"1", "2", "3", "4", "5", "6", "7", "8", "9">>

\* `new Date(created_at).getTime()` is a count of milliseconds that leaves
\* the range of the model checker's integers after 24 days, so it is kept
\* as whole days since the model's epoch plus milliseconds within the day:
\* the instant day * MS_PER_DAY + ms, with 0 <= ms < MS_PER_DAY.
MS_PER_DAY == 1000 * 60 * 60 * 24
Instant(day, ms) == [day |-> day, ms |-> ms]

\* The sample records were created one day before the model's epoch.
SampleCreatedAt == Instant(0 - 1, 0)

Has(r, f) == f \in DOMAIN r

\* An array of n citizen rows.
Ciudadanos(n) == [i \in 1..n |-> [id |-> i]]
LeafCounts == {3, 7}

\* The scalar columns of a worker row (LideresRow and friends).
WorkerColumns(id, nombre) ==
    [id |-> id, nombre |-> nombre,
     created_at |-> SampleCreatedAt, num_verificado |-> TRUE,
     clave_electoral |-> <<"K">>, curp |-> <<"C">>, direccion |-> <<"D">>,
     colonia |-> <<"c", "o">>, codigo_postal |-> <<"9">>, seccion |-> <<"s">>,
     entidad |-> <<"E">>, municipio |-> <<"M">>, numero_cel |-> <<"5">>]

\* r with property f set to v (object spread plus one property).
With(r, f, v) == [x \in DOMAIN r \cup {f} |-> IF x = f THEN v ELSE r[x]]


\* a with the properties of b added or overwritten.
Merge(a, b) == [x \in DOMAIN a \cup DOMAIN b |-> IF x \in DOMAIN b THEN b[x] ELSE a[x]]

\* worker[field], `undefined` when the property is absent.
Prop(r, f) == IF Has(r, f) THEN r[f] ELSE Undefined

FoldSeq(Op(_, _), s, acc0) ==
    LET f[i \in 0..Len(s)] == IF i = 0 THEN acc0 ELSE Op(f[i - 1], s[i])
    IN  f[Len(s)]

\* A null element of a response array.
Null == [null |-> TRUE]
IsNull(r) == Has(r, "null")

(************************ Metrics Calculator ******************************)
RECURSIVE TrimStart(_)
TrimStart(s) == IF Len(s) > 0 /\ Head(s) = " " THEN TrimStart(Tail(s)) ELSE s

RECURSIVE TrimEnd(_)
TrimEnd(s) ==
    IF Len(s) > 0 /\ s[Len(s)] = " " THEN TrimEnd(SubSeq(s, 1, Len(s) - 1)) ELSE s

\* String.prototype.trim
Trim(s) == TrimEnd(TrimStart(s))

\* JavaScript truthiness of a string-valued property.
Truthy(s) == s # Undefined /\ s # <<>>

CompletenessFields ==
    <<"nombre", "clave_electoral", "curp", "direccion", "colonia",
      "codigo_postal", "seccion", "entidad", "municipio", "numero_cel">>

\* Variant: a field counts when it is truthy, whitespace included.
calculateDataCompletenessNoTrim(worker) ==
    LET completedFields ==
            Cardinality({i \in 1..Len(CompletenessFields) :
                Truthy(Prop(worker, CompletenessFields[i]))})
    IN  (completedFields * 100) \div Len(CompletenessFields)

\* (completedFields / fields.length) * 100; the double arithmetic is exact
\* for every count 0..10, so the result is the integer 10 * completedFields.
calculateDataCompleteness(worker) ==
    LET completedFields ==
            Cardinality({i \in 1..Len(CompletenessFields) :
                LET v == Prop(worker, CompletenessFields[i])
                IN  Truthy(v) /\ Trim(v) # <<>>})
    IN  (completedFields * 100) \div Len(CompletenessFields)

\* Math.floor((Date.now() - new Date(created_at).getTime()) / (1000*60*60*24)):
\* the difference is (whole days) * MS_PER_DAY + (difference within the day),
\* and the second term lies strictly between -MS_PER_DAY and MS_PER_DAY.
daysSinceCreation(createdAt, clock) ==
    ((clock \div MS_PER_DAY) - createdAt.day)
        + (((clock % MS_PER_DAY) - createdAt.ms) \div MS_PER_DAY)

\* Variant: 30 whole days already count as 'down'.
calculateTrendDownAtThirty(worker, clock) ==
    LET d == daysSinceCreation(worker.created_at, clock)
    IN  IF d < 7 THEN "up" ELSE IF d >= 30 THEN "down" ELSE "stable"

calculateTrend(worker, clock) ==
    LET d == daysSinceCreation(worker.created_at, clock)
    IN  IF d < 7 THEN "up" ELSE IF d > 30 THEN "down" ELSE "stable"

isWorkerActive(createdAt, clock) == daysSinceCreation(createdAt, clock) <= 90

calculatePerformanceMetrics(worker, ciudadanosCount, clock) ==
    [ciudadanosRegistrados |-> ciudadanosCount,
     tasaVerificacion |-> IF worker.num_verificado THEN 100 ELSE 0,
     completitudDatos |-> calculateDataCompleteness(worker),
     ranking |-> 0,
     tendencia |-> calculateTrend(worker, clock),
     ultimaActividad |-> worker.created_at]

extractLocationInfo(worker) ==
    [entidad |-> Prop(worker, "entidad"),
     municipio |-> Prop(worker, "municipio"),
     seccion |-> Prop(worker, "seccion"),
     colonia |-> Prop(worker, "colonia"),
     codigo_postal |-> Prop(worker, "codigo_postal")]

(***************************** Tree Builder *******************************)
\* movilizador.ciudadanos?.length || 0
LeafCount(mov) == IF Has(mov, "ciudadanos") THEN Len(mov.ciudadanos) ELSE 0

\* (x.collection || [])
OrEmpty(r, f) == IF Has(r, f) THEN r[f] ELSE <<>>

AddLeafCount(sum, mov) == sum + LeafCount(mov)

transformMovilizadorToHierarchicalWorker(movilizador, parentId, clock) ==
    LET totalCiudadanos == LeafCount(movilizador)
    IN  [id |-> movilizador.id,
         nombre |-> movilizador.nombre,
         role |-> "movilizador",
         ciudadanosRegistrados |-> totalCiudadanos,
         ubicacion |-> extractLocationInfo(movilizador),
         children |-> <<>>,
         parentId |-> parentId,
         performance |-> calculatePerformanceMetrics(movilizador, totalCiudadanos, clock),
         isActive |-> isWorkerActive(movilizador.created_at, clock),
         lastActivity |-> movilizador.created_at]

\* brigadista.movilizadores?.reduce((sum, mov) => sum + (mov.ciudadanos?.length || 0), 0) || 0
BrigadistaTotal(brigadista) ==
    IF Has(brigadista, "movilizadores")
    THEN FoldSeq(AddLeafCount, brigadista.movilizadores, 0)
    ELSE 0

transformBrigadistaToHierarchicalWorker(brigadista, parentId, clock) ==
    LET src == OrEmpty(brigadista, "movilizadores")
        movilizadores ==
            [i \in 1..Len(src) |->
                transformMovilizadorToHierarchicalWorker(src[i], brigadista.id, clock)]
        totalCiudadanos == BrigadistaTotal(brigadista)
    IN  [id |-> brigadista.id,
         nombre |-> brigadista.nombre,
         role |-> "brigadista",
         ciudadanosRegistrados |-> totalCiudadanos,
         ubicacion |-> extractLocationInfo(brigadista),
         children |-> movilizadores,
         parentId |-> parentId,
         performance |-> calculatePerformanceMetrics(brigadista, totalCiudadanos, clock),
         isActive |-> isWorkerActive(brigadista.created_at, clock),
         lastActivity |-> brigadista.created_at]

AddBrigadistaLeaves(total, brigadista) ==
    total + FoldSeq(AddLeafCount, OrEmpty(brigadista, "movilizadores"), 0)

\* Variant: counts a brigadista's movilizadores instead of their ciudadanos.
AddBrigadistaMovilizadores(total, brigadista) ==
    total + Len(OrEmpty(brigadista, "movilizadores"))
calculateTotalCiudadanosShallow(lider) ==
    FoldSeq(AddBrigadistaMovilizadores, OrEmpty(lider, "brigadistas"), 0)

calculateTotalCiudadanos(lider) ==
    FoldSeq(AddBrigadistaLeaves, OrEmpty(lider, "brigadistas"), 0)

transformLiderToHierarchicalWorker(lider, clock) ==
    LET src == OrEmpty(lider, "brigadistas")
        brigadistas ==
            [i \in 1..Len(src) |->
                transformBrigadistaToHierarchicalWorker(src[i], lider.id, clock)]
        totalCiudadanos == calculateTotalCiudadanos(lider)
    IN  [id |-> lider.id,
         nombre |-> lider.nombre,
         role |-> "lider",
         ciudadanosRegistrados |-> totalCiudadanos,
         ubicacion |-> extractLocationInfo(lider),
         children |-> brigadistas,
         performance |-> calculatePerformanceMetrics(lider, totalCiudadanos, clock),
         isActive |-> isWorkerActive(lider.created_at, clock),
         lastActivity |-> lider.created_at]

transformToHierarchicalWorkers(data, clock) ==
    [i \in 1..Len(data) |-> transformLiderToHierarchicalWorker(data[i], clock)]

\* The transform reads a property of every record it visits: a null element
\* at any level raises a TypeError before anything is returned.
TransformThrows(data) ==
    \E i \in 1..Len(data) :
        \/ IsNull(data[i])
        \/ \E j \in 1..Len(OrEmpty(data[i], "brigadistas")) :
              LET b == data[i].brigadistas[j]
              IN  \/ IsNull(b)
                  \/ \E k \in 1..Len(OrEmpty(b, "movilizadores")) :
                        IsNull(b.movilizadores[k])

(********************* Aggregation: getHierarchyStats *********************)
RECURSIVE Gcd(_, _)
Gcd(a, b) == IF b = 0 THEN a ELSE Gcd(b, a % b)

\* The quotient a / b of two non-negative numbers (b > 0), kept exact as a
\* fraction in lowest terms.
Quotient(a, b) == LET g == Gcd(a, b) IN [num |-> a \div g, den |-> b \div g]
Zero == [num |-> 0, den |-> 1]

InitialStats ==
    [totalLideres |-> 0, totalBrigadistas |-> 0, totalMovilizadores |-> 0,
     totalCiudadanos |-> 0,
     mostProductiveWorker |-> [id |-> <<>>, name |-> <<>>, role |-> "", ciudadanos |-> 0],
     deepestLevel |-> 1]

\* Variant: the level of the node just met is assigned (deepestLevel = level).
LatestLevel(a, b) == b

Max(a, b) == IF a >= b THEN a ELSE b

\* Variant: an equal count replaces the candidate (last seen wins).
CandidateLastWins(best, worker, role) ==
    IF worker.ciudadanosRegistrados >= best.ciudadanos
    THEN [id |-> worker.id, name |-> worker.nombre, role |-> role,
          ciudadanos |-> worker.ciudadanosRegistrados]
    ELSE best

\* if (worker.ciudadanosRegistrados > mostProductiveWorker.ciudadanos) { ... }
Candidate(best, worker, role) ==
    IF worker.ciudadanosRegistrados > best.ciudadanos
    THEN [id |-> worker.id, name |-> worker.nombre, role |-> role,
          ciudadanos |-> worker.ciudadanosRegistrados]
    ELSE best

VisitMovilizador(acc, movilizador) ==
    [acc EXCEPT !.totalMovilizadores = @ + 1,
                !.deepestLevel = Max(@, 3),
                !.totalCiudadanos = @ + movilizador.ciudadanosRegistrados,
                !.mostProductiveWorker = Candidate(@, movilizador, "movilizador")]

\* Variant: the brigadista's rolled-up count is added to the leaf total too.
VisitBrigadistaDoubleCount(acc, brigadista) ==
    FoldSeq(VisitMovilizador, brigadista.children,
            [acc EXCEPT !.totalBrigadistas = @ + 1,
                        !.deepestLevel = Max(@, 2),
                        !.totalCiudadanos = @ + brigadista.ciudadanosRegistrados,
                        !.mostProductiveWorker = Candidate(@, brigadista, "brigadista")])

VisitBrigadista(acc, brigadista) ==
    FoldSeq(VisitMovilizador, brigadista.children,
            [acc EXCEPT !.totalBrigadistas = @ + 1,
                        !.deepestLevel = Max(@, 2),
                        !.mostProductiveWorker = Candidate(@, brigadista, "brigadista")])

VisitLider(acc, lider) ==
    FoldSeq(VisitBrigadista, lider.children,
            [acc EXCEPT !.totalLideres = @ + 1,
                        !.mostProductiveWorker = Candidate(@, lider, "lider")])

\* The synchronous part of getHierarchyStats, applied to the fetched tree.
HierarchyStats(hierarchicalData) ==
    LET t == FoldSeq(VisitLider, hierarchicalData, InitialStats)
    IN  [totalLideres |-> t.totalLideres,
         totalBrigadistas |-> t.totalBrigadistas,
         totalMovilizadores |-> t.totalMovilizadores,
         totalCiudadanos |-> t.totalCiudadanos,
         averageCiudadanosPorLider |->
             IF t.totalLideres > 0 THEN Quotient(t.totalCiudadanos, t.totalLideres) ELSE Zero,
         averageCiudadanosPorBrigadista |->
             IF t.totalBrigadistas > 0 THEN Quotient(t.totalCiudadanos, t.totalBrigadistas) ELSE Zero,
         averageCiudadanosPorMovilizador |->
             IF t.totalMovilizadores > 0 THEN Quotient(t.totalCiudadanos, t.totalMovilizadores) ELSE Zero,
         deepestLevel |-> t.deepestLevel,
         mostProductiveWorker |-> t.mostProductiveWorker]

(************************* Tree Query: flatten ****************************)
\* Variant: the level is not increased on the way down.
RECURSIVE flattenSameLevel(_, _)
flattenSameLevel(workers, level) ==
    IF Len(workers) = 0 THEN <<>>
    ELSE LET worker == Head(workers)
         IN  <<With(worker, "level", level)>>
             \o (IF Len(worker.children) > 0 THEN flattenSameLevel(worker.children, level)
                 ELSE <<>>)
             \o flattenSameLevel(Tail(workers), level)

RECURSIVE flatten(_, _)
flatten(workers, level) ==
    IF Len(workers) = 0 THEN <<>>
    ELSE LET worker == Head(workers)
         IN  <<With(worker, "level", level)>>
             \o (IF Len(worker.children) > 0 THEN flatten(worker.children, level + 1) ELSE <<>>)
             \o flatten(Tail(workers), level)

flattenHierarchy(data) == flatten(data, 0)

(************** Gateway responses, assembled record by record *************)
RecordsOfBrigadista(b) == 1 + Len(OrEmpty(b, "movilizadores"))
AddBrigadistaRecords(n, b) == n + RecordsOfBrigadista(b)
AddLiderRecords(n, l) == n + 1 + FoldSeq(AddBrigadistaRecords, OrEmpty(l, "brigadistas"), 0)
RecordCount(data) == FoldSeq(AddLiderRecords, data, 0)

LiderRow(i, hasBrigadistas) ==
    LET cols == WorkerColumns(<<"L", Digits[i]>>, <<"l", Digits[i]>>)
    IN  IF hasBrigadistas THEN With(cols, "brigadistas", <<>>) ELSE cols

BrigadistaRow(i, j, hasMovilizadores) ==
    LET cols == WorkerColumns(<<"B", Digits[i], Digits[j]>>, <<"b", Digits[i], Digits[j]>>)
    IN  IF hasMovilizadores THEN With(cols, "movilizadores", <<>>) ELSE cols

MovilizadorRow(i, j, k, hasCiudadanos, n) ==
    LET cols == WorkerColumns(<<"M", Digits[i], Digits[j], Digits[k]>>,
                              <<"m", Digits[i], Digits[j], Digits[k]>>)
    IN  IF hasCiudadanos THEN With(cols, "ciudadanos", Ciudadanos(n)) ELSE cols

\* The gateway's response gains a lider record.
AppendLider(hasBrigadistas) ==
    /\ phase = "rows"
    /\ RecordCount(rows) < MaxRecords
    /\ rows' = Append(rows, LiderRow(Len(rows) + 1, hasBrigadistas))
    /\ UNCHANGED <<phase, tree, stats>>
    /\ UNCHANGED <<serviceVars, rankVars, flatVars, queryVars, restVars>>

\* The last lider of the response gains a brigadista record.
AppendBrigadista(hasMovilizadores) ==
    /\ phase = "rows"
    /\ RecordCount(rows) < MaxRecords
    /\ Len(rows) > 0
    /\ Has(rows[Len(rows)], "brigadistas")
    /\ LET i == Len(rows)
           bs == rows[i].brigadistas
       IN  rows' = [rows EXCEPT ![i] =
                       With(@, "brigadistas",
                            Append(bs, BrigadistaRow(i, Len(bs) + 1, hasMovilizadores)))]
    /\ UNCHANGED <<phase, tree, stats>>
    /\ UNCHANGED <<serviceVars, rankVars, flatVars, queryVars, restVars>>

\* The last brigadista of the response gains a movilizador record.
AppendMovilizador(hasCiudadanos, n) ==
    /\ phase = "rows"
    /\ RecordCount(rows) < MaxRecords
    /\ Len(rows) > 0
    /\ Len(OrEmpty(rows[Len(rows)], "brigadistas")) > 0
    /\ LET i == Len(rows)
           bs == rows[i].brigadistas
           j == Len(bs)
       IN  /\ Has(bs[j], "movilizadores")
           /\ LET ms == bs[j].movilizadores
                  b2 == With(bs[j], "movilizadores",
                             Append(ms, MovilizadorRow(i, j, Len(ms) + 1, hasCiudadanos, n)))
              IN  rows' = [rows EXCEPT ![i] =
                              With(@, "brigadistas", [bs EXCEPT ![j] = b2])]
    /\ UNCHANGED <<phase, tree, stats>>
    /\ UNCHANGED <<serviceVars, rankVars, flatVars, queryVars, restVars>>

\* transformToHierarchicalWorkers applied to the response.
Transform ==
    /\ phase = "rows"
    /\ ~TransformThrows(rows)
    /\ tree' = transformToHierarchicalWorkers(rows, now)
    /\ phase' = "built"
    /\ UNCHANGED <<rows, stats>>
    /\ UNCHANGED <<serviceVars, rankVars, flatVars, queryVars, restVars>>

\* The statistics pass of getHierarchyStats applied to the built tree.
ComputeStats ==
    /\ phase = "built"
    /\ stats' = HierarchyStats(tree)
    /\ phase' = "stats"
    /\ UNCHANGED <<rows, tree>>
    /\ UNCHANGED <<serviceVars, rankVars, flatVars, queryVars, restVars>>

\* Variant: the level is assigned to the node itself (worker.level = level)
\* and the node is pushed.
TreeAnnotatedInPlace(data) ==
    [i \in 1..Len(data) |->
        With(With(data[i], "level", 0), "children",
             [j \in 1..Len(data[i].children) |->
                 LET b == data[i].children[j]
                 IN  With(With(b, "level", 1), "children",
                          [k \in 1..Len(b.children) |-> With(b.children[k], "level", 2)])])]

\* The tree as a call of flattenHierarchy leaves it: every pushed element is
\* a new object { ...worker, level }, and nothing is assigned to a node or
\* to a children array of the input.
TreeAfterFlatten(data) == data

\* flattenHierarchy applied to the built tree.
Flatten ==
    /\ phase \in {"built", "stats"}
    /\ flatCalls < MaxFlattens
    /\ flatOut' = flattenHierarchy(tree)
    /\ tree' = TreeAfterFlatten(tree)
    /\ flatCalls' = flatCalls + 1
    /\ UNCHANGED <<rows, phase, stats>>
    /\ UNCHANGED <<serviceVars, rankVars, queryVars, restVars>>

(*********************** properties of the build **************************)
AddCount(sum, node) == sum + node.ciudadanosRegistrados
SumOfCounts(nodes) == FoldSeq(AddCount, nodes, 0)

\* The ciudadanos rows of a source record, as a set of positions.
CiudadanosOf(mov) == IF "ciudadanos" \in DOMAIN mov THEN DOMAIN mov.ciudadanos ELSE {}

\* Every leaf row below a lider source record, named by its path.
LeafRowsOfLider(lider) ==
    LET bs == OrEmpty(lider, "brigadistas")
    IN  UNION {UNION {{<<j, k, c>> : c \in CiudadanosOf(bs[j].movilizadores[k])} :
                        k \in 1..Len(OrEmpty(bs[j], "movilizadores"))} :
               j \in 1..Len(bs)}

\* C1: in every built tree a movilizador node's ciudadanosRegistrados is the
\* number of its ciudadanos rows (0 when the collection is missing), a
\* brigadista's is the sum of its children's, and a lider's is the sum of its
\* children's, which is the number of leaf rows in its subtree.
C1_RegisteredCountIsLeafSum ==
    phase # "rows" =>
        /\ Len(tree) = Len(rows)
        /\ \A i \in 1..Len(tree) :
            LET lider == tree[i]
                srcB == OrEmpty(rows[i], "brigadistas")
            IN  /\ Len(lider.children) = Len(srcB)
                /\ lider.ciudadanosRegistrados = SumOfCounts(lider.children)
                /\ lider.ciudadanosRegistrados = Cardinality(LeafRowsOfLider(rows[i]))
                /\ \A j \in 1..Len(lider.children) :
                    LET brigadista == lider.children[j]
                        srcM == OrEmpty(srcB[j], "movilizadores")
                    IN  /\ Len(brigadista.children) = Len(srcM)
                        /\ brigadista.ciudadanosRegistrados = SumOfCounts(brigadista.children)
                        /\ \A k \in 1..Len(brigadista.children) :
                              brigadista.children[k].ciudadanosRegistrados
                                  = Cardinality(CiudadanosOf(srcM[k]))

\* A built lider with two brigadistas, leaves under both, and a movilizador
\* whose ciudadanos collection is missing.
C1_Witness ==
    /\ phase = "built"
    /\ \E i \in 1..Len(tree) :
        /\ Len(tree[i].children) = 2
        /\ tree[i].ciudadanosRegistrados > 0
        /\ \E j \in 1..2 :
              \E k \in 1..Len(tree[i].children[j].children) :
                  /\ ~Has(rows[i].brigadistas[j].movilizadores[k], "ciudadanos")
                  /\ tree[i].children[j].children[k].ciudadanosRegistrados = 0

\* Node positions of a tree, by level.
BrigadistaPositions(t) == {<<i, j>> \in (1..Len(t)) \X (1..MaxRecords) :
                              j <= Len(t[i].children)}
MovilizadorPositions(t) ==
    {<<i, j, k>> \in (1..Len(t)) \X (1..MaxRecords) \X (1..MaxRecords) :
        j <= Len(t[i].children) /\ k <= Len(t[i].children[j].children)}

\* The scenario of one lider with two brigadistas, each with one movilizador,
\* whose leaf counts are 3 and 7.
ScenarioTree(t) ==
    /\ Len(t) = 1
    /\ Len(t[1].children) = 2
    /\ \A j \in 1..2 : Len(t[1].children[j].children) = 1
    /\ t[1].children[1].children[1].ciudadanosRegistrados = 3
    /\ t[1].children[2].children[1].ciudadanosRegistrados = 7

\* avg is total / count, or exactly 0 when count is 0.
IsAverage(avg, total, count) ==
    IF count = 0 THEN avg = Zero
    ELSE avg.den > 0 /\ avg.num * count = total * avg.den

\* C8: getHierarchyStats reports the node count of each level, the sum of the
\* movilizador leaf counts, and per-level averages total / count that are
\* exactly 0 for a level without nodes; in the 3-and-7 scenario it reports
\* totalMovilizadores = 2, totalCiudadanos = 10 and an average of 5.
C8_StatsTotalsAndAverages ==
    phase = "stats" =>
        LET movs == MovilizadorPositions(tree)
            leaves == UNION {{<<p, c>> :
                                c \in 1..tree[p[1]].children[p[2]].children[p[3]].ciudadanosRegistrados} :
                             p \in movs}
        IN  /\ stats.totalLideres = Len(tree)
            /\ stats.totalBrigadistas = Cardinality(BrigadistaPositions(tree))
            /\ stats.totalMovilizadores = Cardinality(movs)
            /\ stats.totalCiudadanos = Cardinality(leaves)
            /\ IsAverage(stats.averageCiudadanosPorLider,
                         stats.totalCiudadanos, stats.totalLideres)
            /\ IsAverage(stats.averageCiudadanosPorBrigadista,
                         stats.totalCiudadanos, stats.totalBrigadistas)
            /\ IsAverage(stats.averageCiudadanosPorMovilizador,
                         stats.totalCiudadanos, stats.totalMovilizadores)
            /\ ScenarioTree(tree) =>
                  /\ stats.totalMovilizadores = 2
                  /\ stats.totalCiudadanos = 10
                  /\ stats.averageCiudadanosPorMovilizador = [num |-> 5, den |-> 1]

\* Statistics of the 3-and-7 scenario have been computed.
C8_Witness == phase = "stats" /\ ScenarioTree(tree)

\* Statistics of a tree with liders but no movilizador: an average over an
\* empty level.
C8_EmptyLevelReached ==
    phase = "stats" /\ stats.totalLideres > 0 /\ stats.totalMovilizadores = 0

\* Position in the pre-order listing of the first node whose count is the
\* maximum over all nodes.
FirstMaxPosition(flat) ==
    LET top == CHOOSE m \in {flat[i].ciudadanosRegistrados : i \in 1..Len(flat)} :
                   \A i \in 1..Len(flat) : flat[i].ciudadanosRegistrados <= m
    IN  CHOOSE i \in 1..Len(flat) :
            /\ flat[i].ciudadanosRegistrados = top
            /\ \A h \in 1..(i - 1) : flat[h].ciudadanosRegistrados < top

IsNodeSummary(w, node) ==
    /\ w.id = node.id
    /\ w.name = node.nombre
    /\ w.role = node.role
    /\ w.ciudadanos = node.ciudadanosRegistrados

\* C9 as claimed: for every non-empty tree the mostProductiveWorker is the
\* first node in traversal order holding the maximum ciudadanosRegistrados.
C9_MostProductiveIsFirstMax ==
    (phase = "stats" /\ Len(tree) > 0) =>
        LET flat == flattenHierarchy(tree)
        IN  IsNodeSummary(stats.mostProductiveWorker, flat[FirstMaxPosition(flat)])

\* C9 amended: when some node has a count above 0 the mostProductiveWorker is
\* the first node in traversal order holding the maximum; when every count is
\* 0 (or the tree is empty) it is the initial placeholder with empty id, name
\* and role and 0 ciudadanos.
C9_MostProductiveIsFirstPositiveMax ==
    phase = "stats" =>
        LET flat == flattenHierarchy(tree)
        IN  IF \E i \in 1..Len(flat) : flat[i].ciudadanosRegistrados > 0
            THEN IsNodeSummary(stats.mostProductiveWorker, flat[FirstMaxPosition(flat)])
            ELSE stats.mostProductiveWorker = InitialStats.mostProductiveWorker

\* Two liders where the second holds strictly more than the first (it
\* replaces the candidate) and ties its own brigadista (which does not).
C9_Witness ==
    /\ phase = "stats"
    /\ Len(tree) = 2
    /\ 0 < tree[1].ciudadanosRegistrados
    /\ tree[1].ciudadanosRegistrados < tree[2].ciudadanosRegistrados
    /\ \E j \in 1..Len(tree[2].children) :
          tree[2].children[j].ciudadanosRegistrados = tree[2].ciudadanosRegistrados
    /\ stats.mostProductiveWorker.id = tree[2].id

(**************************** Tree Query Layer ****************************)
UpperCase == <<"A", "B", "C", "D", "E", "F", "G", "H", "I", "J", "K", "L", "M",
               "N", "O", "P", "Q", "R", "S", "T", "U", "V", "W", "X", "Y", "Z">>
LowerCase == <<"a", "b", "c", "d", "e", "f", "g", "h", "i", "j", "k", "l", "m",
               "n", "o", "p", "q", "r", "s", "t", "u", "v", "w", "x", "y", "z">>

LowerChar(ch) ==
    IF \E i \in 1..Len(UpperCase) : UpperCase[i] = ch
    THEN LowerCase[CHOOSE i \in 1..Len(UpperCase) : UpperCase[i] = ch]
    ELSE ch

\* String.prototype.toLowerCase
toLowerCase(s) == [i \in 1..Len(s) |-> LowerChar(s[i])]

\* String.prototype.includes
includes(s, sub) ==
    \E i \in 0..(Len(s) - Len(sub)) : SubSeq(s, i + 1, i + Len(sub)) = sub

\* field?.toLowerCase().includes(searchLower), falsy when the field is undefined
OptionalIncludes(field, searchLower) ==
    field # Undefined /\ includes(toLowerCase(field), searchLower)

\* Variant: only the location fields are searched, not the name.
SearchMatchesLocationOnly(worker, searchLower) ==
    \/ OptionalIncludes(worker.ubicacion.entidad, searchLower)
    \/ OptionalIncludes(worker.ubicacion.municipio, searchLower)
    \/ OptionalIncludes(worker.ubicacion.colonia, searchLower)
    \/ OptionalIncludes(worker.ubicacion.seccion, searchLower)

SearchMatches(worker, searchLower) ==
    \/ includes(toLowerCase(worker.nombre), searchLower)
    \/ OptionalIncludes(worker.ubicacion.entidad, searchLower)
    \/ OptionalIncludes(worker.ubicacion.municipio, searchLower)
    \/ OptionalIncludes(worker.ubicacion.colonia, searchLower)
    \/ OptionalIncludes(worker.ubicacion.seccion, searchLower)

\* Array.prototype.filter
Filtered(s, Keep(_)) ==
    LET f[i \in 0..Len(s)] ==
            IF i = 0 THEN <<>>
            ELSE IF Keep(s[i]) THEN Append(f[i - 1], s[i]) ELSE f[i - 1]
    IN  f[Len(s)]

Min(a, b) == IF a <= b THEN a ELSE b

\* The score is a sum of integers divided by 4, kept exact as a fraction.
calculateOverallPerformanceScore(worker) ==
    LET activityScore == IF worker.isActive THEN 100 ELSE 0
        registrationScore == Min(worker.ciudadanosRegistrados * 10, 100)
    IN  Quotient(worker.performance.tasaVerificacion + worker.performance.completitudDatos
                    + activityScore + registrationScore, 4)

AtLeast(q, n) == q.num >= n * q.den
Below(q, n) == q.num < n * q.den

\* Variant: a score of exactly 90 falls in the good band.
InBandNinetyIsGood(level, score) ==
    CASE level = "excellent" -> score.num > 90 * score.den
      [] level = "good" -> AtLeast(score, 70) /\ score.num <= 90 * score.den
      [] level = "average" -> AtLeast(score, 50) /\ Below(score, 70)
      [] level = "poor" -> Below(score, 50)
      [] OTHER -> FALSE

\* Variant: the good band starts at 60 and overlaps the average band.
InBandGoodFromSixty(level, score) ==
    CASE level = "excellent" -> AtLeast(score, 90)
      [] level = "good" -> AtLeast(score, 60) /\ Below(score, 90)
      [] level = "average" -> AtLeast(score, 50) /\ Below(score, 70)
      [] level = "poor" -> Below(score, 50)
      [] OTHER -> FALSE

InBand(level, score) ==
    CASE level = "excellent" -> AtLeast(score, 90)
      [] level = "good" -> AtLeast(score, 70) /\ Below(score, 90)
      [] level = "average" -> AtLeast(score, 50) /\ Below(score, 70)
      [] level = "poor" -> Below(score, 50)
      [] OTHER -> FALSE

(********************************* errors *********************************)
NoError == [type |-> "undefined"]
JsError(type, message) == [type |-> type, message |-> message]
ServiceError(message, originalError) ==
    [type |-> "ServiceError", message |-> message, originalError |-> originalError]

(********************************* cache **********************************)
CACHE_TTL == 5 * 60 * 1000
CACHE_MAX_SIZE == 100

NoFilters == [given |-> FALSE]
FilterOptions(props) == [given |-> TRUE, props |-> props]

\* JSON.stringify of a filter object: its properties in insertion order.
\* Each property is a pair <<name, JSON text of the value>>.
JSONstringify(props) ==
    LET f[i \in 0..Len(props)] ==
            IF i = 0 THEN <<"{">>
            ELSE f[i - 1] \o (IF i > 1 THEN <<",">> ELSE <<>>)
                          \o <<props[i][1], ":", props[i][2]>>
    IN  f[Len(props)] \o <<"}">>

generateCacheKey(prefix, filters) ==
    <<prefix, "-">> \o (IF filters.given THEN JSONstringify(filters.props)
                        ELSE <<"no-filters">>)

KeysOf(c) == {c[i].key : i \in 1..Len(c)}
CacheIndex(c, key) == CHOOSE i \in 1..Len(c) : c[i].key = key
RemoveAt(c, i) == SubSeq(c, 1, i - 1) \o SubSeq(c, i + 1, Len(c))

\* Variant: an entry expires as soon as its age reaches the TTL.
getFromCacheEarlyExpiry(c, key, clock) ==
    IF key \notin KeysOf(c) THEN [hit |-> FALSE, cache |-> c]
    ELSE LET i == CacheIndex(c, key)
         IN  IF clock - c[i].timestamp >= CACHE_TTL
             THEN [hit |-> FALSE, cache |-> RemoveAt(c, i)]
             ELSE [hit |-> TRUE, data |-> c[i].data, cache |-> c]

\* Variant: a stale entry is reported absent but left in the map.
getFromCacheNoPurge(c, key, clock) ==
    IF key \notin KeysOf(c) THEN [hit |-> FALSE, cache |-> c]
    ELSE LET i == CacheIndex(c, key)
         IN  IF clock - c[i].timestamp > CACHE_TTL
             THEN [hit |-> FALSE, cache |-> c]
             ELSE [hit |-> TRUE, data |-> c[i].data, cache |-> c]

\* The lookup returns the data (or null) and may delete the entry.
getFromCache(c, key, clock) ==
    IF key \notin KeysOf(c) THEN [hit |-> FALSE, cache |-> c]
    ELSE LET i == CacheIndex(c, key)
         IN  IF clock - c[i].timestamp > CACHE_TTL
             THEN [hit |-> FALSE, cache |-> RemoveAt(c, i)]
             ELSE [hit |-> TRUE, data |-> c[i].data, cache |-> c]

\* Variant: the size check never evicts.
setCacheUnbounded(c, key, data, clock) ==
    LET entry == [key |-> key, data |-> data, timestamp |-> clock]
    IN  IF key \in KeysOf(c) THEN [c EXCEPT ![CacheIndex(c, key)] = entry]
        ELSE Append(c, entry)

\* Map.set keeps the position of a key already present and appends a new
\* one; the first key in Map order is then deleted when the size exceeds 100
\* (a cache key is never the empty string, so `if (oldestKey)` holds).
setCache(c, key, data, clock) ==
    LET entry == [key |-> key, data |-> data, timestamp |-> clock]
        c1 == IF key \in KeysOf(c) THEN [c EXCEPT ![CacheIndex(c, key)] = entry]
              ELSE Append(c, entry)
    IN  IF Len(c1) > CACHE_MAX_SIZE THEN Tail(c1) ELSE c1

(***************************** Raw Data Gateway ***************************)
\* One lider with an empty brigadistas collection.
SingleRows == <<LiderRow(1, TRUE)>>

\* One lider with a brigadista, both without collections below them.
PairRows == <<With(LiderRow(1, TRUE), "brigadistas", <<BrigadistaRow(1, 1, FALSE)>>)>>

\* A lider record that lacks its nombre.
NamelessRows == <<With(LiderRow(1, FALSE), "nombre", Undefined)>>

\* A malformed response whose only element is null; the cast to
\* LiderWithHierarchy[] in the gateway is unchecked.
NullRows == <<Null>>

GatewaySample == {SingleRows, PairRows, NamelessRows, NullRows}

\* How OptimizedSupabaseService.getHierarchicalData settles: a result with
\* data, a result with an error, a result with neither, or a rejection (by
\* the circuit breaker's ServiceError or by any other error).
GatewayOutcomes ==
    {[kind |-> "data", data |-> d] : d \in GatewaySample}
    \cup {[kind |-> "error", error |-> JsError("DatabaseError", "timeout")],
          [kind |-> "null"],
          [kind |-> "throws", error |-> JsError("Error", "network down")],
          [kind |-> "throws", error |-> ServiceError("Circuit breaker is open", NoError)]}

(**************************** HierarchyService ****************************)
Failure(error, c) == [ok |-> FALSE, error |-> error, cache |-> c]

\* Variant: a result without data leaves an empty tree under the key.
HierarchicalDataStoreOnNull(outcome, cacheKey, c, clock) ==
    CASE outcome.kind = "throws" ->
            Failure(IF outcome.error.type = "ServiceError" THEN outcome.error
                    ELSE ServiceError("Hierarchy service error", outcome.error), c)
      [] outcome.kind = "error" ->
            Failure(ServiceError("Failed to fetch hierarchical data",
                                 JsError("Error", outcome.error.message)), c)
      [] outcome.kind = "null" ->
            Failure(ServiceError("Failed to fetch hierarchical data", NoError),
                    setCache(c, cacheKey, <<>>, clock))
      [] outcome.kind = "data" ->
            IF TransformThrows(outcome.data)
            THEN Failure(ServiceError("Hierarchy service error",
                                      JsError("TypeError", "Cannot read properties of null")), c)
            ELSE LET hierarchicalData == transformToHierarchicalWorkers(outcome.data, clock)
                 IN  [ok |-> TRUE, value |-> hierarchicalData,
                      cache |-> setCache(c, cacheKey, hierarchicalData, clock)]

\* Variant: a call that finds a tree already resident under its key when its
\* own fetch completes returns that tree and writes nothing.
HierarchicalDataAdoptResident(outcome, cacheKey, c, clock) ==
    CASE outcome.kind = "throws" ->
            Failure(IF outcome.error.type = "ServiceError" THEN outcome.error
                    ELSE ServiceError("Hierarchy service error", outcome.error), c)
      [] outcome.kind = "error" ->
            Failure(ServiceError("Failed to fetch hierarchical data",
                                 JsError("Error", outcome.error.message)), c)
      [] outcome.kind = "null" ->
            Failure(ServiceError("Failed to fetch hierarchical data", NoError), c)
      [] outcome.kind = "data" ->
            IF TransformThrows(outcome.data)
            THEN Failure(ServiceError("Hierarchy service error",
                                      JsError("TypeError", "Cannot read properties of null")), c)
            ELSE IF cacheKey \in KeysOf(c)
            THEN [ok |-> TRUE, value |-> c[CacheIndex(c, cacheKey)].data, cache |-> c]
            ELSE LET hierarchicalData == transformToHierarchicalWorkers(outcome.data, clock)
                 IN  [ok |-> TRUE, value |-> hierarchicalData,
                      cache |-> setCache(c, cacheKey, hierarchicalData, clock)]

\* getHierarchicalData from the point where the gateway promise settles:
\* the result check, the transform, the cache write, and the catch clause.
HierarchicalDataAfterFetch(outcome, cacheKey, c, clock) ==
    CASE outcome.kind = "throws" ->
            Failure(IF outcome.error.type = "ServiceError" THEN outcome.error
                    ELSE ServiceError("Hierarchy service error", outcome.error), c)
      [] outcome.kind = "error" ->
            Failure(ServiceError("Failed to fetch hierarchical data",
                                 JsError("Error", outcome.error.message)), c)
      [] outcome.kind = "null" ->
            Failure(ServiceError("Failed to fetch hierarchical data", NoError), c)
      [] outcome.kind = "data" ->
            IF TransformThrows(outcome.data)
            THEN Failure(ServiceError("Hierarchy service error",
                                      JsError("TypeError", "Cannot read properties of null")), c)
            ELSE LET hierarchicalData == transformToHierarchicalWorkers(outcome.data, clock)
                 IN  [ok |-> TRUE, value |-> hierarchicalData,
                      cache |-> setCache(c, cacheKey, hierarchicalData, clock)]

Request(op) == [op |-> op, term |-> <<>>, level |-> ""]
\* The request of the operation every other one is derived from.
HierarchicalDataRequest == Request("getHierarchicalData")
SearchTerms == {<<"l">>}
Levels == {"good"}
Requests ==
    {Request("getHierarchicalData"), Request("getFlattenedHierarchy"),
     Request("getHierarchyStats")}
    \cup {[op |-> "searchWorkers", term |-> t, level |-> ""] : t \in SearchTerms}
    \cup {[op |-> "getWorkersByPerformance", term |-> <<>>, level |-> l] : l \in Levels}

\* The message of the ServiceError each derived operation raises in its catch.
OperationMessage(op) ==
    CASE op = "getHierarchyStats" -> "Failed to calculate hierarchy statistics"
      [] op = "getFlattenedHierarchy" -> "Failed to flatten hierarchy"
      [] op = "searchWorkers" -> "Failed to search workers"
      [] op = "getWorkersByPerformance" -> "Failed to get workers by performance"

\* The body of a derived operation after `await this.getHierarchicalData`.
\* searchWorkers calls worker.nombre.toLowerCase() on every flattened node
\* and throws a TypeError when a nombre is undefined.
Derived(req, hierarchicalData) ==
    LET flattened == flattenHierarchy(hierarchicalData)
        searchLower == toLowerCase(req.term)
        Matches(worker) == SearchMatches(worker, searchLower)
        OfLevel(worker) == InBand(req.level, calculateOverallPerformanceScore(worker))
    IN  CASE req.op = "getHierarchyStats" ->
                [ok |-> TRUE, value |-> HierarchyStats(hierarchicalData)]
          [] req.op = "getFlattenedHierarchy" ->
                [ok |-> TRUE, value |-> flattened]
          [] req.op = "searchWorkers" ->
                IF \E i \in 1..Len(flattened) : flattened[i].nombre = Undefined
                THEN [ok |-> FALSE,
                      error |-> ServiceError(OperationMessage(req.op),
                                    JsError("TypeError", "Cannot read properties of undefined"))]
                ELSE [ok |-> TRUE, value |-> Filtered(flattened, Matches)]
          [] req.op = "getWorkersByPerformance" ->
                [ok |-> TRUE, value |-> Filtered(flattened, OfLevel)]

\* What a public operation returns or throws, given how its inner
\* getHierarchicalData ended.
OperationResult(req, inner) ==
    IF req.op = "getHierarchicalData"
    THEN IF inner.ok THEN [ok |-> TRUE, value |-> inner.value]
         ELSE [ok |-> FALSE, error |-> inner.error]
    ELSE IF inner.ok THEN Derived(req, inner.value)
         ELSE [ok |-> FALSE, error |-> ServiceError(OperationMessage(req.op), inner.error)]

Filters == {NoFilters, FilterOptions(<<<<"activeOnly", "true">>>>)}
CacheKeyOf(filters) == generateCacheKey("hierarchical-data", filters)
\* An operation in progress is known by its request and its filter; callers
\* are alike, so `calls` counts them per operation.
\* Two filter objects with the same options and values, whose properties
\* were inserted in different orders.
ReorderedFilters ==
    {FilterOptions(<<<<"activeOnly", "true">>, <<"searchTerm", "\"x\"">>>>),
     FilterOptions(<<<<"searchTerm", "\"x\"">>, <<"activeOnly", "true">>>>)}

Operations ==
    {[req |-> r, filters |-> f] : r \in Requests, f \in Filters}
        \cup {[req |-> Request("getHierarchicalData"), filters |-> f] : f \in ReorderedFilters}
\* Stores of `key` that a lookup at time `clock` must still honour.
FreshStores(history, key, clock) ==
    LET Fresh(s) == s.key = key /\ clock <= s.at + CACHE_TTL
    IN  SelectSeq(history, Fresh)

\* Keys in `ord` that remain in `keys`, then the keys new in `keys`.
Reordered(ord, keys) ==
    LET Stays(k) == k \in keys
        kept == SelectSeq(ord, Stays)
        new == keys \ {ord[i] : i \in 1..Len(ord)}
    IN  IF new = {} THEN kept ELSE Append(kept, CHOOSE k \in new : TRUE)

\* What a step hands to a caller: the operation's value or error, whether the
\* operation went to the gateway and, if so, how the gateway settled.
NoReturn == [kind |-> "none"]
Return(req, filters, gateway, result) ==
    Merge([kind |-> "return", req |-> req, filters |-> filters,
           fetched |-> gateway # "none", gateway |-> gateway], result)

\* A caller invokes a public operation.  Everything up to the first await
\* runs at once: the key is derived, the cache is looked up (a stale entry
\* is deleted), and on a hit the operation completes from the cached tree;
\* on a miss the gateway fetch is issued and the caller waits.
StartCall(req, filters) ==
    /\ returned = NoReturn
    /\ LET cacheKey == CacheKeyOf(filters)
           found == getFromCache(cache, cacheKey, now)
           op == [req |-> req, filters |-> filters]
       IN  /\ cache' = found.cache
           /\ order' = Reordered(order, KeysOf(found.cache))
           /\ IF found.hit
              THEN /\ returned' = Return(req, filters, "none",
                                    OperationResult(req, [ok |-> TRUE, value |-> found.data]))
                   /\ UNCHANGED <<calls, fetchCount>>
              ELSE /\ fetchCount < MaxFetches
                   /\ calls' = [calls EXCEPT ![op] = @ + 1]
                   /\ fetchCount' = fetchCount + 1
                   /\ returned' = NoReturn
           /\ staleKeys' = staleKeys \cap KeysOf(found.cache)
    /\ UNCHANGED <<now, stores, clearedCalls>>
    /\ UNCHANGED <<buildVars, rankVars, hookVars, unifiedVars, breakerVars>>

\* The gateway promise of a waiting caller settles and the rest of the
\* operation runs to its return or throw.
CompleteFetch(op, outcome) ==
    /\ returned = NoReturn
    /\ calls[op] > 0
    /\ \E early \in BOOLEAN :
          LET cacheKey == CacheKeyOf(op.filters)
              inner == HierarchicalDataAfterFetch(outcome, cacheKey, cache, now)
              resident == staleKeys \cap KeysOf(inner.cache)
          IN  /\ IF early THEN clearedCalls[op] > 0 ELSE calls[op] > clearedCalls[op]
              /\ clearedCalls' = IF early THEN [clearedCalls EXCEPT ![op] = @ - 1]
                                 ELSE clearedCalls
              /\ staleKeys' = IF ~inner.ok THEN resident
                              ELSE IF early THEN resident \cup {cacheKey}
                              ELSE resident \ {cacheKey}
    /\ LET cacheKey == CacheKeyOf(op.filters)
           inner == HierarchicalDataAfterFetch(outcome, cacheKey, cache, now)
           gone == KeysOf(cache) \ KeysOf(inner.cache)
           Resident(s) == s.key \notin gone
       IN  /\ cache' = inner.cache
           /\ order' = Reordered(order, KeysOf(inner.cache))
           /\ stores' = IF inner.ok
                        THEN Append(SelectSeq(stores, Resident),
                                    [key |-> cacheKey, tree |-> inner.value, at |-> now])
                        ELSE stores
           /\ returned' = Merge(Return(op.req, op.filters, outcome.kind,
                                          OperationResult(op.req, inner)),
                                   [outcome |-> outcome])
           /\ calls' = [calls EXCEPT ![op] = @ - 1]
    /\ UNCHANGED <<now, fetchCount>>
    /\ UNCHANGED <<buildVars, rankVars, hookVars, unifiedVars, breakerVars>>

\* The caller's continuation takes the value or the error its await settled
\* with.  A promise continuation is a microtask: it runs before any other
\* call starts, any gateway promise settles or the clock is read again.
Receive ==
    /\ returned # NoReturn
    /\ returned' = NoReturn
    /\ UNCHANGED <<now, cache, calls, fetchCount, stores, order>>
    /\ UNCHANGED <<buildVars, rankVars, restVars>>

\* HierarchyService.clearCache
ClearCache ==
    /\ returned = NoReturn
    /\ cache' = <<>>
    /\ order' = <<>>
    /\ stores' = <<>>
    /\ returned' = NoReturn
    /\ UNCHANGED <<now, calls, fetchCount>>
    /\ UNCHANGED <<buildVars, rankVars, restVars>>

\* HierarchyService.clearCache, observed: the callers waiting at this moment
\* are remembered as having begun their fetch before the clear.
ClearCacheObserved ==
    /\ returned = NoReturn
    /\ cache' = <<>>
    /\ order' = <<>>
    /\ stores' = <<>>
    /\ returned' = NoReturn
    /\ clearedCalls' = calls
    /\ staleKeys' = {}
    /\ UNCHANGED <<now, calls, fetchCount>>
    /\ UNCHANGED <<buildVars, rankVars, hookVars, unifiedVars, breakerVars>>

\* Time passes.  The clock is observed at instants that alternate a whole
\* TTL and one millisecond apart (0, TTL, TTL + 1, 2 TTL + 1, ...), which puts
\* lookups at ages 0, 1, TTL and TTL + 1 of the entries stored before them.
Tick ==
    LET periods == now \div CACHE_TTL
        drift == now % CACHE_TTL
    IN  /\ returned = NoReturn
        /\ periods + drift < MaxTicks
        /\ now' = IF periods = drift THEN now + CACHE_TTL ELSE now + 1
        /\ returned' = NoReturn
        /\ UNCHANGED <<cache, calls, fetchCount, stores, order>>
        /\ UNCHANGED <<buildVars, rankVars, restVars>>


(************************* WorkerAnalyticsService *************************)
\* The fields of a flattened worker that the ranking pass reads.  The other
\* fields of WorkerAnalytics (name, role, location, trend, temporal
\* performance) are copied through and play no part in the order.
SampleWorkers ==
    {[ciudadanosRegistrados |-> c, isActive |-> a,
      performance |-> [tasaVerificacion |-> t, completitudDatos |-> d]] :
        c \in {0, 25}, a \in BOOLEAN, t \in {0, 100}, d \in {50, 100}}

\* One element of the array built by hierarchicalData.map; `index` is the
\* 0-based position.
ToWorkerAnalytics(worker, index) ==
    [workerId |-> worker.id,
     ciudadanosRegistrados |-> worker.ciudadanosRegistrados,
     tasaVerificacion |-> worker.performance.tasaVerificacion,
     completitudDatos |-> worker.performance.completitudDatos,
     ranking |-> index + 1]

\* A sum of integers divided by 4, kept exact as a fraction.
calculateWorkerScore(worker) ==
    Quotient(worker.tasaVerificacion + worker.completitudDatos
                + worker.ciudadanosRegistrados * 2, 4)

\* The sign test of the comparator (a, b) => scoreB - scoreA: a positive
\* result puts b before a.
ComparatorPositive(a, b) ==
    LET scoreA == calculateWorkerScore(a)
        scoreB == calculateWorkerScore(b)
    IN  scoreB.num * scoreA.den > scoreA.num * scoreB.den

\* Array.prototype.sort with that comparator: a stable sort, elements that
\* compare equal keep their order.
InsertSorted(sorted, worker) ==
    LET Before(i) == ~ComparatorPositive(sorted[i], worker)
        k == Cardinality({i \in 1..Len(sorted) : Before(i)})
    IN  SubSeq(sorted, 1, k) \o <<worker>> \o SubSeq(sorted, k + 1, Len(sorted))
SortByScore(a) == FoldSeq(InsertSorted, a, <<>>)

\* Variant: the rankings given before the sort are kept.
KeepRankings(sortedAnalytics) == sortedAnalytics

\* sortedAnalytics.forEach((worker, index) => worker.ranking = index + 1);
\* the element at 0-based index `index` is sortedAnalytics[index + 1] here.
UpdateRankings(sortedAnalytics) ==
    [i \in 1..Len(sortedAnalytics) |->
        LET index == i - 1 IN [sortedAnalytics[i] EXCEPT !.ranking = index + 1]]

\* The flattened hierarchy handed to getWorkerAnalytics grows by one worker.
AppendWorker(w) ==
    /\ ~ranked
    /\ Len(flatWorkers) < MaxWorkers
    /\ flatWorkers' = Append(flatWorkers,
                           Merge([id |-> <<"W", Digits[Len(flatWorkers) + 1]>>], w))
    /\ UNCHANGED <<analytics, ranked>>
    /\ UNCHANGED <<buildVars, serviceVars, restVars>>

\* getWorkerAnalytics from the point where the flattened workers are known:
\* map to WorkerAnalytics, sort by score, renumber.
GetWorkerAnalytics ==
    /\ ~ranked
    /\ LET mapped == [i \in 1..Len(flatWorkers) |-> ToWorkerAnalytics(flatWorkers[i], i - 1)]
       IN  analytics' = UpdateRankings(SortByScore(mapped))
    /\ ranked' = TRUE
    /\ UNCHANGED flatWorkers
    /\ UNCHANGED <<buildVars, serviceVars, restVars>>

\* No tree query has been made.
NoQuery == [op |-> "none"]
QueryIdle == queried = NoQuery

\* The hook as mounted, before any effect has run: useState's initial values.
HookState(data, flattenedData, hookStats, loading, loadingStats, error) ==
    [data |-> data, flattenedData |-> flattenedData, stats |-> hookStats,
     loading |-> loading, loadingStats |-> loadingStats, error |-> error]
Closure(h) == [loading |-> h.loading, loadingStats |-> h.loadingStats]
NoHookEvent == [kind |-> "none"]
HookIdle ==
    /\ hook = HookState(<<>>, <<>>, Null, FALSE, FALSE, Null)
    /\ rendered = Closure(hook)
    /\ fetching = <<>>
    /\ statsFetching = 0
    /\ hookCalls = 0
    /\ hookEvent = NoHookEvent

\* WorkerAnalyticsService before any getUnifiedAnalytics call.
UnifiedIdle ==
    /\ analyticsCache = <<>>
    /\ unifiedWaiting = [f \in Filters |-> 0]

\* No clearCache has been observed.
ClearIdle ==
    /\ clearedCalls = [o \in Operations |-> 0]
    /\ staleKeys = {}

\* new CircuitBreaker(5, 60000), with nothing executed yet.
RunKinds ==
    {[op |-> o, mode |-> m] : o \in {"operation", "getHierarchicalData"},
                              m \in {"closed", "half-open"}}
NoBreakerEvent == [kind |-> "none"]
BreakerIdle ==
    /\ breaker = [failures |-> 0, lastFailureTime |-> 0, state |-> "closed"]
    /\ running = [k \in RunKinds |-> 0]
    /\ breakerEvent = NoBreakerEvent
    /\ throwsInARow = 0
    /\ failedQueriesInARow = 0
RestIdle == HookIdle /\ UnifiedIdle /\ ClearIdle /\ BreakerIdle

RankIdle ==
    /\ flatWorkers = <<>>
    /\ analytics = <<>>
    /\ ranked = FALSE

ServiceIdle ==
    /\ now = 0
    /\ cache = <<>>
    /\ calls = [o \in Operations |-> 0]
    /\ fetchCount = 0
    /\ returned = NoReturn
    /\ stores = <<>>
    /\ order = <<>>

Init ==
    /\ ServiceIdle
    /\ RankIdle
    /\ QueryIdle
    /\ RestIdle
    /\ rows = <<>>
    /\ phase = "idle"
    /\ tree = <<>>
    /\ stats = InitialStats
    /\ flatOut = <<>>
    /\ flatCalls = 0

Next ==
    \/ \E req \in Requests, f \in Filters : StartCall(req, f)
    \/ \E op \in Operations, outcome \in GatewayOutcomes : CompleteFetch(op, outcome)
    \/ Receive
    \/ ClearCache
    \/ Tick

Spec == Init /\ [][Next]_vars

InitBuild ==
    /\ ServiceIdle
    /\ RankIdle
    /\ QueryIdle
    /\ RestIdle
    /\ rows = <<>>
    /\ phase = "rows"
    /\ tree = <<>>
    /\ stats = InitialStats
    /\ flatOut = <<>>
    /\ flatCalls = 0

NextBuild ==
    \/ \E h \in BOOLEAN : AppendLider(h)
    \/ \E h \in BOOLEAN : AppendBrigadista(h)
    \/ AppendMovilizador(FALSE, 0)
    \/ \E n \in LeafCounts : AppendMovilizador(TRUE, n)
    \/ Transform
    \/ ComputeStats
    \/ Flatten

SpecBuild == InitBuild /\ [][NextBuild]_vars

NextRank ==
    \/ \E w \in SampleWorkers : AppendWorker(w)
    \/ GetWorkerAnalytics

SpecRank == Init /\ [][NextRank]_vars

(************************ properties of the cache *************************)
\* A step in which a call starts and is served from the cache.
HitStep == returned'.kind = "return" /\ ~returned'.fetched
\* A step in which a call starts, finds nothing usable and goes to the gateway.
MissStep == fetchCount' = fetchCount + 1
\* A step in which a waiting call returns or throws.
FetchedStep == returned'.kind = "return" /\ returned'.fetched
StartedOp == CHOOSE op \in Operations : calls'[op] = calls[op] + 1
\* The key looked up by the call that starts in this step.
ReadKey ==
    IF HitStep THEN CacheKeyOf(returned'.filters) ELSE CacheKeyOf(StartedOp.filters)
EntryOf(c, key) == c[CacheIndex(c, key)]
Without(c, key) == LET Other(e) == e.key # key IN SelectSeq(c, Other)
\* What the call that starts in this step returns when computed from `data`.
ServedFrom(data) ==
    Return(returned'.req, returned'.filters, "none",
           OperationResult(returned'.req, [ok |-> TRUE, value |-> data]))

\* C2: a read later than T + TTL of a value stored at T reports it absent and
\* removes its entry; a read up to and including T + TTL returns the stored
\* value and leaves the entry in place; an entry leaves the cache only by
\* such a read of its own key, by clearCache, or by eviction on a write.
C2_LazyExpiry ==
    [][/\ (HitStep \/ MissStep) =>
            IF ReadKey \in KeysOf(cache)
            THEN LET e == EntryOf(cache, ReadKey)
                 IN  IF now > e.timestamp + CACHE_TTL
                     THEN MissStep /\ cache' = Without(cache, ReadKey)
                     ELSE HitStep /\ cache' = cache /\ returned' = ServedFrom(e.data)
            ELSE MissStep /\ cache' = cache
       /\ \A k \in KeysOf(cache) \ KeysOf(cache') :
            \/ MissStep /\ k = ReadKey /\ now > EntryOf(cache, k).timestamp + CACHE_TTL
            \/ ~HitStep /\ ~MissStep /\ ~FetchedStep /\ now' = now /\ cache' = <<>>
            \/ FetchedStep /\ Len(cache) = CACHE_MAX_SIZE /\ k = cache[1].key
      ]_vars

\* An entry stored at T was looked up after T + TTL by a call that is now
\* waiting for the gateway, and the entry is gone.
C2_Witness ==
    \E i \in 1..Len(stores), op \in Operations :
        /\ calls[op] > 0
        /\ CacheKeyOf(op.filters) = stores[i].key
        /\ now > stores[i].at + CACHE_TTL
        /\ stores[i].key \notin KeysOf(cache)

\* A call was served from an entry whose age is exactly the TTL.
C2_ServedAtTTL ==
    /\ returned.kind = "return" /\ ~returned.fetched
    /\ CacheKeyOf(returned.filters) \in KeysOf(cache)
    /\ now = EntryOf(cache, CacheKeyOf(returned.filters)).timestamp + CACHE_TTL

\* C4 (as stated): while a tree stored under a key at time T is neither
\* expired, cleared nor evicted, a call with that key issues no gateway fetch
\* and is computed from the tree stored at T.
C4_ServedFromTreeStoredAtT ==
    [][(HitStep \/ MissStep) =>
            LET fresh == FreshStores(stores, ReadKey, now)
            IN  \A i \in 1..Len(fresh) :
                    HitStep /\ returned' = ServedFrom(fresh[i].tree)
      ]_vars

\* C4 (amended): while some tree stored under a key is neither expired,
\* cleared nor evicted, a call with that key issues no gateway fetch and is
\* computed from the tree most recently stored under that key.
C4_ServedFromLatestStoredTree ==
    [][(HitStep \/ MissStep) =>
            LET fresh == FreshStores(stores, ReadKey, now)
            IN  fresh # <<>> =>
                    HitStep /\ returned' = ServedFrom(fresh[Len(fresh)].tree)
      ]_vars

\* Two overlapping calls stored different trees under one key, and a
\* statistics call started a whole TTL after the first store was served
\* from the cache.
C4_Witness ==
    /\ returned.kind = "return" /\ ~returned.fetched /\ returned.ok
    /\ returned.req.op = "getHierarchyStats"
    /\ LET fresh == FreshStores(stores, CacheKeyOf(returned.filters), now)
       IN  /\ Len(fresh) = 2
           /\ fresh[1].tree # fresh[2].tree
           /\ now = fresh[1].at + CACHE_TTL
           /\ returned.value = HierarchyStats(fresh[2].tree)

(************************* properties of failures *************************)
\* The messages by which an operation names itself in its ServiceError.
OperationTags(op) ==
    IF op = "getHierarchicalData"
    THEN {"Failed to fetch hierarchical data", "Hierarchy service error"}
    ELSE {OperationMessage(op)}

C5_OnlyServiceErrorEscapes ==
    (returned.kind = "return" /\ ~returned.ok) => returned.error.type = "ServiceError"

HasFresh(c, key, clock) ==
    key \in KeysOf(c) /\ clock <= EntryOf(c, key).timestamp + CACHE_TTL
\* Trees that a complete build at time `clock` can produce.
BuiltTrees(clock) ==
    {transformToHierarchicalWorkers(d, clock) :
        d \in {g \in GatewaySample : ~TransformThrows(g)}}
\* A waiting call ends in this step and its gateway call had failed.
FailedFetchStep == FetchedStep /\ returned'.gateway # "data"
\* Every entry of the cache after the step was there before it or is a
\* completely built tree written by a call whose gateway call gave data.
WritesOnlyBuiltTrees ==
    \A i \in 1..Len(cache') :
        \/ \E j \in 1..Len(cache) : cache'[i] = cache[j]
        \/ /\ FetchedStep /\ returned'.gateway = "data"
           /\ cache'[i].key = CacheKeyOf(returned'.filters)
           /\ cache'[i].timestamp = now
           /\ cache'[i].data \in BuiltTrees(now)

C6_NothingStored ==
    /\ returned.kind = "return" /\ returned.fetched /\ ~returned.ok
    /\ returned.gateway \in {"error", "null", "throws"}
    /\ CacheKeyOf(returned.filters) \notin KeysOf(cache)

\* C7 (as stated): no tree is built with a node that lacks its id or its
\* name; rows that lack one make the build fail instead.
C7_NoNodeWithoutIdOrName ==
    \A i \in 1..Len(cache) :
        LET nodes == flattenHierarchy(cache[i].data)
        IN  \A n \in 1..Len(nodes) :
                nodes[n].id # Undefined /\ nodes[n].nombre # Undefined

(*************************** a cache near its ceiling *********************)
\* The key of the i-th of the entries that fill the cache: the key of a call
\* whose filter is { searchTerm: "<i>" }.
FillerKey(i) ==
    generateCacheKey("hierarchical-data",
                     FilterOptions(<<<<"searchTerm", "\"" \o ToString(i) \o "\"">>>>))
\* The cache after n calls with n different filters, each answered with an
\* empty response at time 0.
Filled(n) == [i \in 1..n |-> [key |-> FillerKey(i), data |-> <<>>, timestamp |-> 0]]

InitFull ==
    /\ \E n \in {CACHE_MAX_SIZE - 1, CACHE_MAX_SIZE} :
          /\ cache = Filled(n)
          /\ order = [i \in 1..n |-> FillerKey(i)]
          /\ stores = [i \in 1..n |-> [key |-> FillerKey(i), tree |-> <<>>, at |-> 0]]
    /\ now = 0
    /\ calls = [o \in Operations |-> 0]
    /\ fetchCount = 0
    /\ returned = NoReturn
    /\ RankIdle
    /\ QueryIdle
    /\ RestIdle
    /\ rows = <<>>
    /\ phase = "idle"
    /\ tree = <<>>
    /\ stats = InitialStats
    /\ flatOut = <<>>
    /\ flatCalls = 0

\* Calls of getHierarchicalData against the filled cache.
NextFull ==
    \/ \E f \in Filters : StartCall(HierarchicalDataRequest, f)
    \/ \E op \in Operations, outcome \in GatewayOutcomes : CompleteFetch(op, outcome)
    \/ Receive

SpecFull == InitFull /\ [][NextFull]_vars

\* A step in which a waiting call writes its tree to the cache.
WriteStep == FetchedStep /\ stores' # stores

\* C3: the cache never holds more than 100 entries; a write of a new key to a
\* cache holding 100 evicts exactly one entry, the oldest-inserted one; any
\* other write evicts nothing; the written key is resident after the write.
C3_CapacityBound ==
    [][/\ Len(cache') <= CACHE_MAX_SIZE
       /\ WriteStep =>
            LET key == CacheKeyOf(returned'.filters)
            IN  /\ key \in KeysOf(cache')
                /\ IF key \notin KeysOf(cache) /\ Len(cache) = CACHE_MAX_SIZE
                   THEN /\ KeysOf(cache) \ KeysOf(cache') = {order[1]}
                        /\ Len(cache') = CACHE_MAX_SIZE
                   ELSE KeysOf(cache) \subseteq KeysOf(cache')
      ]_vars

\* A call wrote a new key to a full cache: the first filler entry is gone,
\* the second is now the oldest, and the written key is resident.
C3_Witness ==
    /\ returned.kind = "return" /\ returned.fetched /\ returned.ok
    /\ Len(cache) = CACHE_MAX_SIZE
    /\ FillerKey(1) \notin KeysOf(cache)
    /\ cache[1].key = FillerKey(2)
    /\ CacheKeyOf(returned.filters) \in KeysOf(cache)

(********************** properties of the ranking pass ********************)
Rankings == {analytics[i].ranking : i \in 1..Len(analytics)}

\* C10: after the ranking pass over N flattened workers the rankings are
\* exactly 1..N, without gap or duplicate, and the worker at 0-based position
\* i of the sorted result has ranking i + 1.
C10_RankingsDense ==
    ranked =>
        /\ Len(analytics) = Len(flatWorkers)
        /\ Rankings = 1..Len(flatWorkers)
        /\ Cardinality(Rankings) = Len(analytics)
        /\ \A i \in 0..(Len(analytics) - 1) : analytics[i + 1].ranking = i + 1
        /\ \A i \in 1..(Len(analytics) - 1) :
              ~ComparatorPositive(analytics[i], analytics[i + 1])

\* Three workers were ranked and the sort moved the last one to the front,
\* past two workers of equal score.
C10_Witness ==
    /\ ranked
    /\ Len(analytics) = MaxWorkers
    /\ analytics[1].workerId = flatWorkers[Len(flatWorkers)].id
    /\ calculateWorkerScore(analytics[2]) = calculateWorkerScore(analytics[3])
    /\ analytics[2].workerId = flatWorkers[1].id

\* The flattened worker an element of the result was made from, and its
\* position in the input.
InputPosition(a) == CHOOSE i \in 1..Len(flatWorkers) : flatWorkers[i].id = a.workerId
SourceWorker(a) == flatWorkers[InputPosition(a)]
\* q1 >= q2 and q1 = q2 for exact fractions.
NotLess(q1, q2) == q1.num * q2.den >= q2.num * q1.den
SameScore(q1, q2) == q1.num * q2.den = q2.num * q1.den

C11_RankedByWorkerScore ==
    ranked =>
        \A i, j \in 1..Len(analytics) :
            i < j =>
                LET si == calculateWorkerScore(analytics[i])
                    sj == calculateWorkerScore(analytics[j])
                IN  /\ NotLess(si, sj)
                    /\ SameScore(si, sj) =>
                          InputPosition(analytics[i]) < InputPosition(analytics[j])

(************************ properties of flattening ************************)
Annotated(node, level) == With(node, "level", level)
\* A brigadista node, then its movilizador nodes in child order.
BrigadistaSubtree(b) ==
    <<Annotated(b, 1)>> \o [k \in 1..Len(b.children) |-> Annotated(b.children[k], 2)]
AppendBrigadistaSubtree(acc, b) == acc \o BrigadistaSubtree(b)
\* A lider node, then the subtree of each of its brigadistas in child order.
AppendLiderSubtree(acc, l) ==
    acc \o <<Annotated(l, 0)>> \o FoldSeq(AppendBrigadistaSubtree, l.children, <<>>)
PreOrder(t) == FoldSeq(AppendLiderSubtree, t, <<>>)

AddBrigadistaNodes(n, b) == n + 1 + Len(b.children)
AddLiderNodes(n, l) == n + 1 + FoldSeq(AddBrigadistaNodes, l.children, 0)
NodeCount(t) == FoldSeq(AddLiderNodes, t, 0)
DepthOfRole(role) ==
    CASE role = "lider" -> 0 [] role = "brigadista" -> 1 [] role = "movilizador" -> 2

\* C12: flattenHierarchy emits every node of the tree exactly once, in
\* pre-order, each annotated with its depth (0 lider, 1 brigadista,
\* 2 movilizador); the output has as many elements as the tree has nodes.
C12_FlattenIsPreOrderWithDepth ==
    flatCalls > 0 =>
        /\ flatOut = PreOrder(tree)
        /\ Len(flatOut) = NodeCount(tree)
        /\ \A i, j \in 1..Len(flatOut) : i # j => flatOut[i].id # flatOut[j].id
        /\ \A i \in 1..Len(flatOut) : flatOut[i].level = DepthOfRole(flatOut[i].role)

\* A tree of two liders was flattened: the first lider's brigadista and its
\* movilizador come before the second lider.
C12_Witness ==
    /\ flatCalls > 0
    /\ Len(tree) = 2
    /\ Len(flatOut) >= 4
    /\ flatOut[1].role = "lider" /\ flatOut[2].role = "brigadista"
    /\ flatOut[3].role = "movilizador" /\ flatOut[3].level = 2
    /\ \E i \in 4..Len(flatOut) : flatOut[i].id = tree[2].id

Omit(r, f) == [x \in DOMAIN r \ {f} |-> r[x]]

HalfDay == MS_PER_DAY \div 2

\* How the ten expected fields of a source record are populated.
Profiles == {"full", "postal", "partial", "blank"}

ProfileColumns(profile, id, nombre) ==
    LET full == WorkerColumns(id, nombre)
    IN  CASE profile = "full" -> full
          [] profile = "postal" ->
                \* only nombre, curp and codigo_postal are present
                [id |-> id, nombre |-> nombre, created_at |-> full.created_at,
                 num_verificado |-> full.num_verificado,
                 curp |-> <<"C">>, codigo_postal |-> <<"9">>]
          [] profile = "partial" ->
                \* seven populated (one padded), one whitespace, one empty, one absent
                Omit([full EXCEPT !.seccion = <<" ">>, !.numero_cel = <<>>,
                                  !.direccion = <<" ", "D", " ">>], "codigo_postal")
          [] profile = "blank" ->
                \* every field empty, whitespace or absent
                [id |-> id, nombre |-> <<" ">>, created_at |-> full.created_at,
                 num_verificado |-> full.num_verificado,
                 clave_electoral |-> <<>>, curp |-> <<" ", " ">>, colonia |-> <<" ">>,
                 codigo_postal |-> <<>>, entidad |-> <<" ">>, municipio |-> <<>>,
                 numero_cel |-> <<" ">>]

\* created_at values around the thresholds of calculateTrend and
\* isWorkerActive, at midnight and at noon.
ThresholdDays == {7, 30, 31, 90, 91}
CreatedAts == {Instant(0 - d, ms) : d \in ThresholdDays, ms \in {0, HalfDay}}

\* The variants of a source record: every profile, verified or not, created
\* a day before the epoch; and the fully populated, verified record at every
\* created_at.
Variant(profile, verified, createdAt) ==
    [profile |-> profile, verified |-> verified, created_at |-> createdAt]
Variants ==
    {Variant(p, v, SampleCreatedAt) : p \in Profiles, v \in BOOLEAN}
        \cup {Variant("full", TRUE, c) : c \in CreatedAts}

VariantColumns(variant, id, nombre) ==
    [ProfileColumns(variant.profile, id, nombre)
        EXCEPT !.created_at = variant.created_at, !.num_verificado = variant.verified]

\* The ciudadanos under the movilizador of a response.
QueryLeafCounts == {6, 8}

\* A response of one lider alone, or one lider heading a chain of one
\* brigadista and one movilizador.
LoneLider(i, nombre, variant) == VariantColumns(variant, <<"L", Digits[i]>>, nombre)
ChainLider(vl, vb, vm, n) ==
    LET m == With(VariantColumns(vm, <<"M", "1", "1", "1">>, <<"m", "1", "1", "1">>),
                  "ciudadanos", Ciudadanos(n))
        b == With(VariantColumns(vb, <<"B", "1", "1">>, <<"b", "1", "1">>),
                  "movilizadores", <<m>>)
    IN  With(LoneLider(1, <<"l", "1">>, vl), "brigadistas", <<b>>)

\* The variants the brigadista and the movilizador of a chain take, and
\* those of the second lider.
ChildVariants ==
    {<<Variant("full", TRUE, SampleCreatedAt), Variant("postal", FALSE, SampleCreatedAt)>>,
     <<Variant("partial", FALSE, SampleCreatedAt), Variant("full", TRUE, Instant(0 - 31, HalfDay))>>,
     <<Variant("blank", TRUE, Instant(0 - 91, HalfDay)), Variant("full", TRUE, SampleCreatedAt)>>}
SecondLiders ==
    {LoneLider(2, <<"L", "2">>, v) :
        v \in {Variant("full", TRUE, SampleCreatedAt), Variant("partial", TRUE, SampleCreatedAt),
               Variant("blank", FALSE, SampleCreatedAt)}}

FirstLiders ==
    {LoneLider(1, <<"l", "1">>, v) : v \in Variants}
        \cup {ChainLider(vl, c[1], c[2], n) :
                vl \in Variants, c \in ChildVariants, n \in QueryLeafCounts}

QueryResponses == {<<l>> : l \in FirstLiders} \cup {<<l, s>> : l \in FirstLiders, s \in SecondLiders}

QueryTerms == {<<>>, <<"L">>, <<"e">>, <<"M">>, <<"s">>, <<"c", "o">>, <<"9">>, <<"z">>}
QueryLevels == {"excellent", "good", "average", "poor"}

\* searchWorkers from the point where the hierarchical data is known.
SearchWorkers(searchTerm) ==
    /\ phase = "built"
    /\ LET req == [Request("searchWorkers") EXCEPT !.term = searchTerm]
       IN  queried' = Merge(req, [result |-> Derived(req, tree)])
    /\ UNCHANGED <<rows, phase, tree, stats, flatVars>>
    /\ UNCHANGED <<serviceVars, rankVars, restVars>>

\* getWorkersByPerformance from the point where the hierarchical data is known.
GetWorkersByPerformance(level) ==
    /\ phase = "built"
    /\ LET req == [Request("getWorkersByPerformance") EXCEPT !.level = level]
       IN  queried' = Merge(req, [result |-> Derived(req, tree)])
    /\ UNCHANGED <<rows, phase, tree, stats, flatVars>>
    /\ UNCHANGED <<serviceVars, rankVars, restVars>>

InitQuery ==
    /\ now \in {0, HalfDay}
    /\ cache = <<>>
    /\ calls = [o \in Operations |-> 0]
    /\ fetchCount = 0
    /\ returned = NoReturn
    /\ stores = <<>>
    /\ order = <<>>
    /\ RankIdle
    /\ QueryIdle
    /\ RestIdle
    /\ rows \in QueryResponses
    /\ phase = "rows"
    /\ tree = <<>>
    /\ stats = InitialStats
    /\ flatOut = <<>>
    /\ flatCalls = 0

NextQuery ==
    \/ Transform
    \/ \E t \in QueryTerms : SearchWorkers(t)
    \/ \E l \in QueryLevels : GetWorkersByPerformance(l)

SpecQuery == InitQuery /\ [][NextQuery]_vars

(************************* C14: searchWorkers *****************************)
LocationFields == <<"entidad", "municipio", "seccion", "colonia", "codigo_postal">>
SearchedLocationFields == <<"entidad", "municipio", "colonia", "seccion">>

\* The text contains the term when both are compared case-insensitively.
ContainsIgnoringCase(text, term) == includes(toLowerCase(text), toLowerCase(term))

\* The node's name or one of the named location fields, where populated,
\* contains the term.
MatchesOn(fields, node, term) ==
    \/ ContainsIgnoringCase(node.nombre, term)
    \/ \E i \in 1..Len(fields) :
          /\ node.ubicacion[fields[i]] # Undefined
          /\ ContainsIgnoringCase(node.ubicacion[fields[i]], term)

\* The nodes of the tree that match on the named fields, in pre-order.
MatchingPreOrder(fields, t, term) ==
    LET Keep(node) == MatchesOn(fields, node, term)
    IN  Filtered(PreOrder(t), Keep)

SearchReturned == queried.op = "searchWorkers" /\ queried.result.ok

\* C14: searchWorkers(term) returns exactly the nodes, in pre-order, whose
\* name or any populated location field (entidad, municipio, seccion,
\* colonia, codigo_postal) contains the term, compared case-insensitively.
C14_SearchCoversNameAndLocation ==
    queried.op = "searchWorkers" =>
        /\ queried.result.ok
        /\ queried.result.value = MatchingPreOrder(LocationFields, tree, queried.term)

\* What the code does: the same with codigo_postal left out of the search.
C14_SearchCoversNameAndFourFields ==
    queried.op = "searchWorkers" =>
        /\ queried.result.ok
        /\ queried.result.value = MatchingPreOrder(SearchedLocationFields, tree, queried.term)

\* A search for "9" returned nothing although a node's codigo_postal is "9".
C14_PostalCodeNotSearched ==
    /\ SearchReturned
    /\ queried.term = <<"9">>
    /\ queried.result.value = <<>>
    /\ \E i \in 1..Len(PreOrder(tree)) : PreOrder(tree)[i].ubicacion.codigo_postal = <<"9">>

FourTimesScore(node) ==
    node.performance.tasaVerificacion + node.performance.completitudDatos
        + (IF node.isActive THEN 100 ELSE 0)
        + (IF node.ciudadanosRegistrados >= 10 THEN 100 ELSE node.ciudadanosRegistrados * 10)

\* The band of a score, on four times the score: 90, 70 and 50 become 360,
\* 280 and 200.
BandOf(node) ==
    LET s == FourTimesScore(node)
    IN  IF s >= 360 THEN "excellent"
        ELSE IF s >= 280 THEN "good"
        ELSE IF s >= 200 THEN "average"
        ELSE "poor"

NodesOfBand(t, band) ==
    LET Keep(node) == BandOf(node) = band
    IN  Filtered(PreOrder(t), Keep)

Returns(node) == \E i \in 1..Len(queried.result.value) : queried.result.value[i].id = node.id

\* C16: getWorkersByPerformance(band) returns exactly the flattened nodes
\* whose composite score lies in the band (excellent >= 90, 70 <= good < 90,
\* 50 <= average < 70, poor < 50); a node with score exactly 90 is returned
\* for excellent and not for good, and a node with the greatest score below
\* 70 (67.5) is returned for average and not for good.
C16_BandsPartitionByScore ==
    queried.op = "getWorkersByPerformance" =>
        /\ queried.result.ok
        /\ queried.result.value = NodesOfBand(tree, queried.level)
        /\ \A i \in 1..Len(PreOrder(tree)) :
              LET node == PreOrder(tree)[i]
              IN  /\ FourTimesScore(node) = 360 => (Returns(node) <=> queried.level = "excellent")
                  /\ FourTimesScore(node) = 270 => (Returns(node) <=> queried.level = "average")

\* The excellent band was asked of a tree holding a node of score exactly 90
\* and a node of score 67.5: the first was returned, the second was not.
C16_Witness ==
    /\ queried.op = "getWorkersByPerformance"
    /\ queried.level = "excellent"
    /\ \E i, j \in 1..Len(PreOrder(tree)) :
          LET a == PreOrder(tree)[i]
              b == PreOrder(tree)[j]
          IN  /\ FourTimesScore(a) = 360 /\ Returns(a)
              /\ FourTimesScore(b) = 270 /\ ~Returns(b)

\* The average band was asked of the same kind of tree: the node of score
\* 67.5 was returned and the node of score 90 was not.
C16_AverageReached ==
    /\ queried.op = "getWorkersByPerformance"
    /\ queried.level = "average"
    /\ \E i, j \in 1..Len(PreOrder(tree)) :
          LET a == PreOrder(tree)[i]
              b == PreOrder(tree)[j]
          IN  /\ FourTimesScore(a) = 360 /\ ~Returns(a)
              /\ FourTimesScore(b) = 270 /\ Returns(b)

(********************* C17: calculateDataCompleteness *********************)
\* The source record of every node, in the pre-order of the built tree.
BrigadistaRecords(b) == <<b>> \o OrEmpty(b, "movilizadores")
AppendBrigadistaRecordList(acc, b) == acc \o BrigadistaRecords(b)
AppendLiderRecordList(acc, l) ==
    acc \o <<l>> \o FoldSeq(AppendBrigadistaRecordList, OrEmpty(l, "brigadistas"), <<>>)
SourceRecords(data) == FoldSeq(AppendLiderRecordList, data, <<>>)

\* The field is present in the record and has a character that is no blank.
Populated(record, field) ==
    /\ Has(record, field)
    /\ record[field] # Undefined
    /\ \E i \in 1..Len(record[field]) : record[field][i] # " "

PopulatedCount(record) ==
    Cardinality({i \in 1..Len(CompletenessFields) : Populated(record, CompletenessFields[i])})

\* C17: for every source record, completitudDatos of its node is 10 times
\* the number of the ten expected fields that are present and non-blank
\* after trimming: 100 when all ten are populated, 0 when none is, and
\* always within 0..100.
C17_CompletenessIsTenPerPopulatedField ==
    phase = "built" =>
        /\ Len(PreOrder(tree)) = Len(SourceRecords(rows))
        /\ \A i \in 1..Len(PreOrder(tree)) :
              LET node == PreOrder(tree)[i]
                  record == SourceRecords(rows)[i]
                  c == node.performance.completitudDatos
              IN  /\ node.id = record.id
                  /\ c = 10 * PopulatedCount(record)
                  /\ c \in 0..100
                  /\ PopulatedCount(record) = 10 => c = 100
                  /\ PopulatedCount(record) = 0 => c = 0

\* A built tree holds a node of completeness 100, a node of completeness 0
\* whose record has empty, whitespace and absent fields, and a node whose
\* record has a padded field that counts.
C17_Witness ==
    /\ phase = "built"
    /\ \E i, j, k \in 1..Len(PreOrder(tree)) :
          LET records == SourceRecords(rows)
              nodes == PreOrder(tree)
          IN  /\ nodes[i].performance.completitudDatos = 100
              /\ nodes[j].performance.completitudDatos = 0
              /\ records[j].nombre = <<" ">> /\ records[j].municipio = <<>>
              /\ ~Has(records[j], "direccion")
              /\ nodes[k].performance.completitudDatos = 70
              /\ records[k].direccion = <<" ", "D", " ">>

(***************** C18, C19: isWorkerActive, calculateTrend ***************)
\* The time elapsed from created_at to the clock reading, as whole days of
\* the calendar plus a remainder strictly between -MS_PER_DAY and MS_PER_DAY.
CalendarDays(createdAt, clock) == (clock \div MS_PER_DAY) - createdAt.day
WithinDay(createdAt, clock) == (clock % MS_PER_DAY) - createdAt.ms

\* elapsed <= days * MS_PER_DAY
ElapsedAtMost(createdAt, clock, days) ==
    \/ CalendarDays(createdAt, clock) < days
    \/ CalendarDays(createdAt, clock) = days /\ WithinDay(createdAt, clock) <= 0

\* elapsed < days * MS_PER_DAY
ElapsedLessThan(createdAt, clock, days) ==
    \/ CalendarDays(createdAt, clock) < days
    \/ CalendarDays(createdAt, clock) = days /\ WithinDay(createdAt, clock) < 0

\* Every node of the built tree with its source record satisfies P.
EveryBuiltNode(P(_, _)) ==
    phase = "built" =>
        \A i \in 1..Len(PreOrder(tree)) : P(PreOrder(tree)[i], SourceRecords(rows)[i])

ActiveWithinNinetyDays(node, record) ==
    node.isActive <=> ElapsedAtMost(record.created_at, now, 90)
ActiveBeforeNinetyOneDays(node, record) ==
    node.isActive <=> ElapsedLessThan(record.created_at, now, 91)

\* C18: a node's isActive flag is true if and only if at most 90 days
\* elapsed between the record's created_at and the clock reading at build
\* time; a record older than 90 days by any amount is inactive.
C18_ActiveIffWithinNinetyDays == EveryBuiltNode(ActiveWithinNinetyDays)

\* What the code does: the flag is true if and only if fewer than 91 days
\* elapsed (the whole number of elapsed days is at most 90).
C18_ActiveIffBeforeNinetyOneDays == EveryBuiltNode(ActiveBeforeNinetyOneDays)

\* A node built from a record 90 days and 12 hours old is active.
C18_ActiveAfterNinetyDaysAndAHalf ==
    /\ phase = "built"
    /\ \E i \in 1..Len(PreOrder(tree)) :
          LET created == SourceRecords(rows)[i].created_at
          IN  /\ PreOrder(tree)[i].isActive
              /\ CalendarDays(created, now) = 90
              /\ WithinDay(created, now) = HalfDay

TrendByElapsedTime(node, record) ==
    LET c == record.created_at
        t == node.performance.tendencia
    IN  /\ t \in {"up", "down", "stable"}
        /\ t = "up" <=> ElapsedLessThan(c, now, 7)
        /\ t = "down" <=> ~ElapsedAtMost(c, now, 30)

TrendByWholeDays(node, record) ==
    LET c == record.created_at
        t == node.performance.tendencia
    IN  /\ t \in {"up", "down", "stable"}
        /\ t = "up" <=> ElapsedLessThan(c, now, 7)
        /\ t = "down" <=> ~ElapsedLessThan(c, now, 31)

\* C19 as stated: trend is 'up' when less than 7 days elapsed, 'down' when
\* more than 30 days elapsed (30 days and 12 hours included), 'stable'
\* otherwise.
C19_TrendByElapsedTime == EveryBuiltNode(TrendByElapsedTime)

\* C19: trend is 'up' when less than 7 days elapsed between created_at and
\* the clock reading at build time, 'down' when 31 days or more elapsed
\* (the whole number of elapsed days exceeds 30), and 'stable' in every
\* other case; the outcomes are mutually exclusive and cover every elapsed
\* time.
C19_TrendByWholeDays == EveryBuiltNode(TrendByWholeDays)

\* A node built from a record 30 days and 12 hours old is 'stable', in a
\* tree that also holds an 'up' node.
C19_Witness ==
    /\ phase = "built"
    /\ \E i, j \in 1..Len(PreOrder(tree)) :
          LET created == SourceRecords(rows)[i].created_at
          IN  /\ PreOrder(tree)[i].performance.tendencia = "stable"
              /\ CalendarDays(created, now) = 30
              /\ WithinDay(created, now) = HalfDay
              /\ PreOrder(tree)[j].performance.tendencia = "up"

(******************* C20: deepestLevel of getHierarchyStats ***************)
\* The tree cut down to the first n nodes of its traversal (a lider, then
\* each of its brigadistas followed by that brigadista's movilizadores).
RECURSIVE FirstBrigadistas(_, _)
FirstBrigadistas(bs, n) ==
    IF n <= 0 \/ Len(bs) = 0 THEN <<>>
    ELSE LET b == Head(bs)
         IN  <<With(b, "children", SubSeq(b.children, 1, Min(n - 1, Len(b.children))))>>
                 \o FirstBrigadistas(Tail(bs), n - AddBrigadistaNodes(0, b))

RECURSIVE FirstNodes(_, _)
FirstNodes(t, n) ==
    IF n <= 0 \/ Len(t) = 0 THEN <<>>
    ELSE LET l == Head(t)
         IN  <<With(l, "children", FirstBrigadistas(l.children, n - 1))>>
                 \o FirstNodes(Tail(t), n - AddLiderNodes(0, l))

\* deepestLevel once the pass has visited the first n nodes.
DeepestLevelAfter(t, n) == FoldSeq(VisitLider, FirstNodes(t, n), InitialStats).deepestLevel

HasRole(t, role) == \E i \in 1..Len(PreOrder(t)) : PreOrder(t)[i].role = role

\* C20: deepestLevel is 1 when the tree has no brigadista node (the empty
\* tree included), 2 when it has a brigadista and no movilizador, 3 when it
\* has a movilizador; during the pass its value never decreases.
C20_DeepestLevelByRolesPresent ==
    phase = "stats" =>
        /\ stats.deepestLevel =
              (IF HasRole(tree, "movilizador") THEN 3
               ELSE IF HasRole(tree, "brigadista") THEN 2 ELSE 1)
        /\ DeepestLevelAfter(tree, 0) = 1
        /\ DeepestLevelAfter(tree, NodeCount(tree)) = stats.deepestLevel
        /\ \A n \in 0..(NodeCount(tree) - 1) :
              /\ NodeCount(FirstNodes(tree, n)) = n
              /\ DeepestLevelAfter(tree, n) <= DeepestLevelAfter(tree, n + 1)

\* The pass met a movilizador and, after it, a brigadista and a lider; the
\* reported deepestLevel is 3.
C20_Witness ==
    /\ phase = "stats"
    /\ stats.deepestLevel = 3
    /\ Len(tree) = 2
    /\ Len(tree[1].children) = 2
    /\ Len(tree[1].children[1].children) = 1
    /\ Len(tree[1].children[2].children) = 0

\* The pass over the empty tree reported 1.
C20_EmptyTreeReached == phase = "stats" /\ tree = <<>> /\ stats.deepestLevel = 1

\* The pass over a tree with a brigadista and no movilizador reported 2.
C20_LevelTwoReached ==
    /\ phase = "stats"
    /\ stats.deepestLevel = 2
    /\ HasRole(tree, "brigadista")

(******************** C21: concurrent calls, same key **********************)
\* C21: a getHierarchicalData call that starts while the cache has no fresh
\* entry for its key issues its own gateway fetch, whether or not another
\* call with that key is waiting; when its fetch gives data it returns the
\* tree built from that data and writes it to the cache under its key.
C21_EachCallFetchesAndStores ==
    [][/\ ((HitStep \/ MissStep) /\ ~HasFresh(cache, ReadKey, now)) =>
            /\ MissStep
            /\ calls'[StartedOp] = calls[StartedOp] + 1
       /\ (FetchedStep /\ returned'.req.op = "getHierarchicalData"
             /\ returned'.outcome.kind = "data"
             /\ ~TransformThrows(returned'.outcome.data)) =>
            LET own == transformToHierarchicalWorkers(returned'.outcome.data, now)
            IN  /\ returned'.ok
                /\ returned'.value = own
                /\ cache' = setCache(cache, CacheKeyOf(returned'.filters), own, now)
                /\ EntryOf(cache', CacheKeyOf(returned'.filters)).data = own
      ]_vars

\* Two getHierarchicalData calls with one key were waiting at once; the
\* gateway gave them different data; the second to complete returned the
\* tree of its own data, which replaced the first call's tree in the cache.
C21_Witness ==
    /\ returned.kind = "return" /\ returned.fetched /\ returned.ok
    /\ returned.req.op = "getHierarchicalData"
    /\ fetchCount = 2
    /\ Len(stores) = 2
    /\ stores[1].key = stores[2].key
    /\ stores[1].at = now
    /\ stores[1].tree # stores[2].tree
    /\ returned.value = stores[2].tree
    /\ returned.value = transformToHierarchicalWorkers(returned.outcome.data, now)
    /\ EntryOf(cache, stores[2].key).data = stores[2].tree

(************************ C22: the cache key *******************************)
\* getHierarchicalData called with filter objects that differ only in the
\* order of their properties.
NextKey ==
    \/ \E f \in ReorderedFilters : StartCall(HierarchicalDataRequest, f)
    \/ \E op \in Operations, outcome \in GatewayOutcomes : CompleteFetch(op, outcome)
    \/ Receive
    \/ Tick

SpecKey == Init /\ [][NextKey]_vars

\* The two filters have the same options with the same values.
SameOptions(f, g) ==
    /\ f.given /\ g.given
    /\ {f.props[i] : i \in 1..Len(f.props)} = {g.props[i] : i \in 1..Len(g.props)}

StartedFilters == IF HitStep THEN returned'.filters ELSE StartedOp.filters

\* C22: two filter objects with the same options and values produce the
\* same cache key whatever the insertion order of their properties, so a
\* request with a reordered but equal filter hits the entry stored by the
\* first.
C22_ReorderedFilterHits ==
    [][(HitStep \/ MissStep) =>
            \A g \in ReorderedFilters :
                /\ SameOptions(StartedFilters, g)
                      => CacheKeyOf(StartedFilters) = CacheKeyOf(g)
                /\ (SameOptions(StartedFilters, g)
                        /\ FreshStores(stores, CacheKeyOf(g), now) # <<>>) => HitStep
      ]_vars

\* What the code does: the key is the serialized filter, so a request hits
\* exactly when a fresh entry stored under the same serialized text exists.
C22_SameSerializedFilterHits ==
    [][(HitStep \/ MissStep) =>
            /\ \A g \in ReorderedFilters :
                  CacheKeyOf(StartedFilters) = CacheKeyOf(g) <=> StartedFilters = g
            /\ HitStep <=> FreshStores(stores, CacheKeyOf(StartedFilters), now) # <<>>
      ]_vars

\* A tree stored under one order of the properties is fresh while a call
\* with the other order is waiting for its own gateway fetch.
C22_ReorderedFilterFetches ==
    \E op \in Operations, g \in ReorderedFilters :
        /\ calls[op] > 0
        /\ op.filters # g
        /\ SameOptions(op.filters, g)
        /\ HasFresh(cache, CacheKeyOf(g), now)
        /\ Len(stores) = 1

(***************************** useHierarchyData ***************************)
MaxHookCalls == 3        \* fetchData and fetchStats invocations in a run

\* The hook is used without filters; every service call of it has one key.
HookKey == CacheKeyOf(NoFilters)

\* How the gateway settles for the hook's service calls.
HookOutcomes ==
    {[kind |-> "data", data |-> d] : d \in {SingleRows, PairRows, NullRows}}
    \cup {[kind |-> "error", error |-> JsError("DatabaseError", "timeout")],
          [kind |-> "null"],
          [kind |-> "throws", error |-> JsError("Error", "network down")]}

\* The string held by the error state.
Message(text) == [text |-> text]

\* err instanceof ServiceError ? err.message : 'Failed to fetch hierarchy data'
errorMessage(err) ==
    IF err.type = "ServiceError" THEN err.message ELSE "Failed to fetch hierarchy data"

\* One fetchData invocation past its guard: where it waits and the tree its
\* first await gave it.
Invocation(pc, hierarchicalData) == [pc |-> pc, hierarchicalData |-> hierarchicalData]

\* fetchData: setData and setFlattenedData, then the finally clause.
fetchDataDone(h, hierarchicalData, flattened) ==
    [h EXCEPT !.data = hierarchicalData, !.flattenedData = flattened, !.loading = FALSE]

\* fetchData: the catch clause, then the finally clause.
fetchDataCatch(h, err) ==
    [h EXCEPT !.error = Message(errorMessage(err)), !.loading = FALSE]

\* fetchStats: setStats, then the finally clause.
fetchStatsDone(h, hierarchyStats) ==
    [h EXCEPT !.stats = hierarchyStats, !.loadingStats = FALSE]

\* Variant: a failing statistics fetch is reported like a failing data fetch.
fetchStatsCatchSetsError(h, err) ==
    [h EXCEPT !.error = Message(errorMessage(err)), !.loadingStats = FALSE]

\* fetchStats: the catch clause only logs; then the finally clause.
fetchStatsCatch(h, err) ==
    [h EXCEPT !.loadingStats = FALSE]

\* The hook and the service cache it works on, as one value.
World ==
    [hook |-> hook, cache |-> cache, fetching |-> fetching,
     statsFetching |-> statsFetching, hookCalls |-> hookCalls, started |-> {}]

\* fetchData up to its first await, called through a callback that captured
\* `closure`: the guard reads the captured loading flag; the service call
\* looks the key up at once and either has the tree or issues the fetch.
fetchDataStart(w, closure, clock) ==
    IF closure.loading THEN w
    ELSE LET found == getFromCache(w.cache, HookKey, clock)
         IN  [w EXCEPT !.hook = [@ EXCEPT !.loading = TRUE, !.error = Null],
                       !.cache = found.cache,
                       !.fetching = Append(@, IF found.hit
                                              THEN Invocation("gotData", found.data)
                                              ELSE Invocation("fetchingData", <<>>)),
                       !.hookCalls = @ + 1,
                       !.started = @ \cup {"fetchData"}]

\* fetchStats up to its first await; on a cache hit getHierarchyStats has its
\* tree at once and the statistics are set without any further lookup.
fetchStatsStart(w, closure, clock) ==
    IF closure.loadingStats THEN w
    ELSE LET found == getFromCache(w.cache, HookKey, clock)
             h == [w.hook EXCEPT !.loadingStats = TRUE]
         IN  IF found.hit
             THEN [w EXCEPT !.hook = fetchStatsDone(h, HierarchyStats(found.data)),
                            !.cache = found.cache,
                            !.hookCalls = @ + 1,
                            !.started = @ \cup {"fetchStats"}]
             ELSE [w EXCEPT !.hook = h,
                            !.cache = found.cache,
                            !.statsFetching = @ + 1,
                            !.hookCalls = @ + 1,
                            !.started = @ \cup {"fetchStats"}]

HookEvent(kind, started) == [kind |-> kind, started |-> started]

\* The hook's step leaves the world `w`.
Becomes(w, kind) ==
    /\ hook' = w.hook
    /\ cache' = w.cache
    /\ fetching' = w.fetching
    /\ statsFetching' = w.statsFetching
    /\ hookCalls' = w.hookCalls
    /\ hookEvent' = HookEvent(kind, w.started)

\* A continuation of fetchData is queued as a microtask.
ContinuationQueued == \E i \in 1..Len(fetching) : fetching[i].pc = "gotData"

HookUnchanged ==
    UNCHANGED <<buildVars, rankVars, calls, fetchCount, returned, stores, order, unifiedVars,
                clearVars, breakerVars>>

\* A caller (the auto-fetch effect, an event handler) invokes fetchData.
FetchData ==
    /\ ~ContinuationQueued
    /\ hookCalls < MaxHookCalls
    /\ Becomes(fetchDataStart(World, rendered, now), "fetchData")
    /\ UNCHANGED <<now, rendered>>
    /\ HookUnchanged

\* A caller invokes fetchStats.
FetchStats ==
    /\ ~ContinuationQueued
    /\ hookCalls < MaxHookCalls
    /\ Becomes(fetchStatsStart(World, rendered, now), "fetchStats")
    /\ UNCHANGED <<now, rendered>>
    /\ HookUnchanged

\* refreshData: the cache is cleared, then fetchData and fetchStats are both
\* called before either is awaited.
RefreshData ==
    /\ ~ContinuationQueued
    /\ hookCalls + 1 < MaxHookCalls
    /\ Becomes(fetchStatsStart(fetchDataStart([World EXCEPT !.cache = <<>>], rendered, now),
                               rendered, now), "refreshData")
    /\ UNCHANGED <<now, rendered>>
    /\ HookUnchanged

\* The hook's clearCache.
HookClearCache ==
    /\ ~ContinuationQueued
    /\ cache # <<>>
    /\ Becomes([World EXCEPT !.cache = <<>>], "clearCache")
    /\ UNCHANGED <<now, rendered>>
    /\ HookUnchanged

\* The gateway fetch of invocation i's getHierarchicalData settles: the
\* service stores and returns the tree, or throws into fetchData's catch.
DataFetchSettles(i, outcome) ==
    /\ ~ContinuationQueued
    /\ i \in 1..Len(fetching)
    /\ fetching[i].pc = "fetchingData"
    /\ LET inner == HierarchicalDataAfterFetch(outcome, HookKey, cache, now)
       IN  IF inner.ok
           THEN Becomes([World EXCEPT !.cache = inner.cache,
                                      !.fetching[i] = Invocation("gotData", inner.value)],
                        "dataResolved")
           ELSE Becomes([World EXCEPT !.cache = inner.cache,
                                      !.fetching = RemoveAt(@, i),
                                      !.hook = fetchDataCatch(@, inner.error)],
                        "dataRejected")
    /\ UNCHANGED <<now, rendered>>
    /\ HookUnchanged

\* The continuation of invocation i after its first await: it calls
\* getFlattenedHierarchy, which looks the key up again.
ContinueFetchData(i) ==
    /\ i \in 1..Len(fetching)
    /\ fetching[i].pc = "gotData"
    /\ LET found == getFromCache(cache, HookKey, now)
       IN  IF found.hit
           THEN Becomes([World EXCEPT !.cache = found.cache,
                                      !.fetching = RemoveAt(@, i),
                                      !.hook = fetchDataDone(@, fetching[i].hierarchicalData,
                                                             flattenHierarchy(found.data))],
                        "fetchDataDone")
           ELSE Becomes([World EXCEPT !.cache = found.cache,
                                      !.fetching[i].pc = "fetchingFlattened"],
                        "flattenedMissed")
    /\ UNCHANGED <<now, rendered>>
    /\ HookUnchanged

\* The gateway fetch of invocation i's getFlattenedHierarchy settles.
FlattenedFetchSettles(i, outcome) ==
    /\ ~ContinuationQueued
    /\ i \in 1..Len(fetching)
    /\ fetching[i].pc = "fetchingFlattened"
    /\ LET inner == HierarchicalDataAfterFetch(outcome, HookKey, cache, now)
           result == OperationResult(Request("getFlattenedHierarchy"), inner)
       IN  IF result.ok
           THEN Becomes([World EXCEPT !.cache = inner.cache,
                                      !.fetching = RemoveAt(@, i),
                                      !.hook = fetchDataDone(@, fetching[i].hierarchicalData,
                                                             result.value)],
                        "fetchDataDone")
           ELSE Becomes([World EXCEPT !.cache = inner.cache,
                                      !.fetching = RemoveAt(@, i),
                                      !.hook = fetchDataCatch(@, result.error)],
                        "flattenedRejected")
    /\ UNCHANGED <<now, rendered>>
    /\ HookUnchanged

\* The gateway fetch of a waiting fetchStats settles.
StatsFetchSettles(outcome) ==
    /\ ~ContinuationQueued
    /\ statsFetching > 0
    /\ LET inner == HierarchicalDataAfterFetch(outcome, HookKey, cache, now)
           result == OperationResult(Request("getHierarchyStats"), inner)
       IN  IF result.ok
           THEN Becomes([World EXCEPT !.cache = inner.cache,
                                      !.statsFetching = @ - 1,
                                      !.hook = fetchStatsDone(@, result.value)],
                        "statsResolved")
           ELSE Becomes([World EXCEPT !.cache = inner.cache,
                                      !.statsFetching = @ - 1,
                                      !.hook = fetchStatsCatch(@, result.error)],
                        "statsRejected")
    /\ UNCHANGED <<now, rendered>>
    /\ HookUnchanged

\* React renders the component: the callbacks are re-created and capture the
\* loading flags of the state at that moment.
Render ==
    /\ ~ContinuationQueued
    /\ rendered # Closure(hook)
    /\ rendered' = Closure(hook)
    /\ hookEvent' = HookEvent("render", {})
    /\ UNCHANGED <<now, cache, hook, fetching, statsFetching, hookCalls>>
    /\ HookUnchanged

\* Time passes as in Tick; while a continuation is queued only the
\* millisecond step can be observed before it runs.
HookTick ==
    LET periods == now \div CACHE_TTL
        drift == now % CACHE_TTL
    IN  /\ periods + drift < MaxTicks
        /\ ContinuationQueued => periods # drift
        /\ now' = IF periods = drift THEN now + CACHE_TTL ELSE now + 1
        /\ hookEvent' = HookEvent("tick", {})
        /\ UNCHANGED <<cache, hook, rendered, fetching, statsFetching, hookCalls>>
        /\ HookUnchanged

NextHook ==
    \/ FetchData
    \/ FetchStats
    \/ RefreshData
    \/ HookClearCache
    \/ \E i \in 1..MaxHookCalls, outcome \in HookOutcomes : DataFetchSettles(i, outcome)
    \/ \E i \in 1..MaxHookCalls : ContinueFetchData(i)
    \/ \E i \in 1..MaxHookCalls, outcome \in HookOutcomes : FlattenedFetchSettles(i, outcome)
    \/ \E outcome \in HookOutcomes : StatsFetchSettles(outcome)
    \/ Render
    \/ HookTick

SpecHook == Init /\ [][NextHook]_vars

(* C23: when the statistics fetch of fetchStats rejects, data, flattenedData, *)
(* error and the previous stats keep their values and loadingStats becomes   *)
(* false; when a service call of fetchData rejects, the error state holds    *)
(* the message of the failure.                                               *)
PrimaryFailures == {"dataRejected", "flattenedRejected"}
C23_StatsFailureDegradesDataFailureSurfaces ==
    [][/\ hookEvent'.kind = "statsRejected" =>
            /\ hook'.data = hook.data
            /\ hook'.flattenedData = hook.flattenedData
            /\ hook'.error = hook.error
            /\ hook'.stats = hook.stats
            /\ hook'.loadingStats = FALSE
       /\ hookEvent'.kind \in PrimaryFailures =>
            /\ hook'.error # Null
            /\ hook'.error.text \in {"Failed to fetch hierarchical data",
                                     "Hierarchy service error",
                                     "Failed to flatten hierarchy"}]_vars

\* A statistics fetch has just failed while a tree and earlier statistics
\* were on display.
C23_Witness ==
    /\ hookEvent.kind = "statsRejected"
    /\ hook.stats # Null
    /\ hook.data # <<>>
    /\ hook.error = Null

\* A data fetch has just failed and its message is in the error state.
C23_DataFailureShown ==
    /\ hookEvent.kind \in PrimaryFailures
    /\ hook.error # Null

(*********************** WorkerAnalyticsService cache **********************)
MaxUnifiedCalls == 2     \* getUnifiedAnalytics calls awaiting their data at once

ANALYTICS_CACHE_TTL == 10 * 60 * 1000

\* WorkerAnalyticsService.getFromCache: as HierarchyService's, with its own TTL.
analyticsGetFromCache(c, key, clock) ==
    IF key \notin KeysOf(c) THEN [hit |-> FALSE, cache |-> c]
    ELSE LET i == CacheIndex(c, key)
         IN  IF clock - c[i].timestamp > ANALYTICS_CACHE_TTL
             THEN [hit |-> FALSE, cache |-> RemoveAt(c, i)]
             ELSE [hit |-> TRUE, data |-> c[i].data, cache |-> c]

\* WorkerAnalyticsService.setCache: Map.set and nothing else.
analyticsSetCache(c, key, data, clock) ==
    LET entry == [key |-> key, data |-> data, timestamp |-> clock]
    IN  IF key \in KeysOf(c) THEN [c EXCEPT ![CacheIndex(c, key)] = entry]
        ELSE Append(c, entry)

UnifiedKeyOf(filters) == generateCacheKey("unified-analytics", filters)

\* How the two gateway reads behind a computation settle: getVerificationStats
\* (for getEnhancedQualityMetrics) and getRegionCounts (for
\* getGeographicAnalysisData), each with data or with an error.
UnifiedOutcomes ==
    {[verificationStats |-> v, regionCounts |-> r] :
        v \in {[kind |-> "data", verification_rate |-> 50], [kind |-> "error"]},
        r \in {[kind |-> "data", regions |-> <<>>], [kind |-> "error"]}}

\* The UnifiedAnalytics object: the fixed totals of getHierarchyStatsTemp, the
\* empty worker list (getFlattenedHierarchyTemp returns []), and the two reads.
UnifiedAnalytics(outcome, clock) ==
    [totalCiudadanos |-> 1000, totalTrabajadores |-> 60 + 60 + 60,
     workerAnalytics |-> <<>>, topPerformers |-> <<>>, underPerformers |-> <<>>,
     verificationRate |-> outcome.verificationStats.verification_rate,
     regionDistribution |-> outcome.regionCounts.regions,
     lastUpdated |-> clock]

\* The key of the i-th of the entries that fill the analytics cache.
UnifiedFillerKey(i) ==
    generateCacheKey("unified-analytics",
                     FilterOptions(<<<<"searchTerm", "\"" \o ToString(i) \o "\"">>>>))
\* The cache after n calls with n different filters, computed at time 0.
UnifiedFilled(n) ==
    [i \in 1..n |-> [key |-> UnifiedFillerKey(i),
                     data |-> UnifiedAnalytics([verificationStats |-> [kind |-> "data", verification_rate |-> 50],
                                                regionCounts |-> [kind |-> "data", regions |-> <<>>]], 0),
                     timestamp |-> 0]]

UnifiedUnchanged == UNCHANGED <<buildVars, serviceVars, rankVars, hookVars, clearVars, breakerVars>>

\* getUnifiedAnalytics up to its first await: a fresh entry is returned; an
\* expired one is deleted and the computation starts.
GetUnifiedAnalytics(filters) ==
    LET found == analyticsGetFromCache(analyticsCache, UnifiedKeyOf(filters), now)
        waiting == unifiedWaiting[NoFilters] + unifiedWaiting[FilterOptions(<<<<"activeOnly", "true">>>>)]
    IN  /\ analyticsCache' = found.cache
        /\ IF found.hit
           THEN UNCHANGED unifiedWaiting
           ELSE /\ waiting < MaxUnifiedCalls
                /\ unifiedWaiting' = [unifiedWaiting EXCEPT ![filters] = @ + 1]
        /\ UNCHANGED now
        /\ UNCHANGED <<buildVars, calls, fetchCount, returned, stores, order, cache, rankVars, hookVars,
                       clearVars, breakerVars>>

\* The reads of a waiting call settle: with both results the object is built
\* and written to the cache; otherwise the call throws and writes nothing.
UnifiedSettles(filters, outcome) ==
    /\ unifiedWaiting[filters] > 0
    /\ unifiedWaiting' = [unifiedWaiting EXCEPT ![filters] = @ - 1]
    /\ analyticsCache' =
          IF outcome.verificationStats.kind = "data" /\ outcome.regionCounts.kind = "data"
          THEN analyticsSetCache(analyticsCache, UnifiedKeyOf(filters),
                                 UnifiedAnalytics(outcome, now), now)
          ELSE analyticsCache
    /\ UnifiedUnchanged

\* WorkerAnalyticsService.clearCache
UnifiedClearCache ==
    /\ analyticsCache # <<>>
    /\ analyticsCache' = <<>>
    /\ UNCHANGED unifiedWaiting
    /\ UnifiedUnchanged

\* Time passes: instants 0, TTL, TTL + 1 of the analytics cache.
UnifiedTick ==
    LET periods == now \div ANALYTICS_CACHE_TTL
        drift == now % ANALYTICS_CACHE_TTL
    IN  /\ periods + drift < MaxTicks
        /\ now' = IF periods = drift THEN now + ANALYTICS_CACHE_TTL ELSE now + 1
        /\ UNCHANGED <<buildVars, calls, fetchCount, returned, stores, order, cache, rankVars, hookVars,
                       unifiedVars, clearVars, breakerVars>>

\* The analytics cache after 99 or 100 calls with different filters.
InitUnified ==
    /\ \E n \in {CACHE_MAX_SIZE - 1, CACHE_MAX_SIZE} : analyticsCache = UnifiedFilled(n)
    /\ unifiedWaiting = [f \in Filters |-> 0]
    /\ ServiceIdle
    /\ RankIdle
    /\ QueryIdle
    /\ HookIdle
    /\ ClearIdle
    /\ BreakerIdle
    /\ rows = <<>>
    /\ phase = "idle"
    /\ tree = <<>>
    /\ stats = InitialStats
    /\ flatOut = <<>>
    /\ flatCalls = 0

NextUnified ==
    \/ \E f \in Filters : GetUnifiedAnalytics(f)
    \/ \E f \in Filters, outcome \in UnifiedOutcomes : UnifiedSettles(f, outcome)
    \/ UnifiedClearCache
    \/ UnifiedTick

SpecUnified == InitUnified /\ [][NextUnified]_vars

(* C24 (as stated): after any sequence of getUnifiedAnalytics calls with    *)
(* distinct filters the analytics cache holds no more entries than a fixed  *)
(* ceiling, here the 100 of the tree cache.                                  *)
C24_ResidentEntriesBounded == Len(analyticsCache) <= CACHE_MAX_SIZE

\* What holds instead: a key leaves the analytics cache only when the whole
\* cache is cleared or a lookup finds its entry older than the TTL; a write
\* removes nothing, and a write under a new key adds one entry.
C24_WritesNeverEvict ==
    [][/\ \/ KeysOf(analyticsCache) \subseteq KeysOf(analyticsCache')
          \/ analyticsCache' = <<>>
          \/ \A i \in 1..Len(analyticsCache) :
                analyticsCache[i].key \notin KeysOf(analyticsCache')
                    => now - analyticsCache[i].timestamp > ANALYTICS_CACHE_TTL
       /\ KeysOf(analyticsCache') \ KeysOf(analyticsCache) # {}
            => Len(analyticsCache') = Len(analyticsCache) + 1]_vars

\* The 101st and 102nd filter have been stored next to the first hundred.
C24_CeilingExceeded ==
    /\ Len(analyticsCache) = CACHE_MAX_SIZE + 2
    /\ UnifiedFillerKey(1) \in KeysOf(analyticsCache)

(***************************** clearCache *********************************)
\* The service calls refreshData makes after clearing: fetchData's and
\* fetchStats's, both without filters.
ClearRequests == {Request("getHierarchicalData"), Request("getHierarchyStats")}
ClearOperations == {[req |-> r, filters |-> NoFilters] : r \in ClearRequests}

NextClear ==
    \/ \E req \in ClearRequests : StartCall(req, NoFilters)
    \/ \E op \in ClearOperations, outcome \in GatewayOutcomes : CompleteFetch(op, outcome)
    \/ Receive
    \/ ClearCacheObserved
    \/ Tick

SpecClear == Init /\ [][NextClear]_vars

(* C25 (as stated): after clearCache no getHierarchicalData call is served  *)
(* from the cache a tree whose gateway fetch began before the clear, also   *)
(* when that fetch was still in progress at the clear and completed later.  *)
C25_ClearInvalidatesEarlierFetches ==
    [][(HitStep /\ returned'.req.op = "getHierarchicalData")
          => CacheKeyOf(returned'.filters) \notin staleKeys]_vars

\* What holds instead: a tree served from the cache was written to the cache
\* after the latest clear.
C25_ServedTreeWrittenAfterClear ==
    [][HitStep => \E i \in 1..Len(stores) :
                     /\ stores[i].key = CacheKeyOf(returned'.filters)
                     /\ returned' = ServedFrom(stores[i].tree)]_vars

\* A getHierarchicalData call has just been served the tree of a fetch that
\* was in progress when the cache was cleared.
C25_StaleTreeServed ==
    /\ returned.kind = "return" /\ ~returned.fetched
    /\ returned.req.op = "getHierarchicalData"
    /\ CacheKeyOf(returned.filters) \in staleKeys

(***************************** CircuitBreaker ******************************)
MaxRunning == 2          \* operations inside execute at once
MaxFailures == 6         \* value of the failure counter (and of the histories) in a run

\* new CircuitBreaker(5, 60000)
threshold == 5
timeout == 60000

\* withRetry's defaults
maxRetries == 3

onSuccess(b) == [b EXCEPT !.failures = 0, !.state = "closed"]

\* Variant: the breaker opens only when the count equals the threshold.
onFailureAtThresholdOnly(b, clock) ==
    LET failures == b.failures + 1
    IN  [failures |-> failures, lastFailureTime |-> clock,
         state |-> IF failures = threshold THEN "open" ELSE b.state]

onFailure(b, clock) ==
    LET failures == b.failures + 1
    IN  [failures |-> failures, lastFailureTime |-> clock,
         state |-> IF failures >= threshold THEN "open" ELSE b.state]

\* The test at the head of execute: the operation is let through (after the
\* timeout, in half-open state) or the call is rejected.
Admit(b, clock) ==
    IF b.state = "open"
    THEN IF clock - b.lastFailureTime > timeout
         THEN [admitted |-> TRUE, breaker |-> [b EXCEPT !.state = "half-open"]]
         ELSE [admitted |-> FALSE, breaker |-> b,
               error |-> ServiceError("Circuit breaker is open", NoError)]
    ELSE [admitted |-> TRUE, breaker |-> b]

\* Errors raised inside the gateway.
NetworkError(message) == [type |-> "NetworkError", message |-> message]
DatabaseError(message, code) == [type |-> "DatabaseError", message |-> message, code |-> code]

retryableCodes == {"PGRST301", "PGRST302", "08000", "08003", "08006"}
classifyError(error) ==
    CASE error.type = "NetworkError" -> [type |-> "network", isRetryable |-> TRUE]
      [] error.type = "DatabaseError" ->
            [type |-> "database", isRetryable |-> error.code \in retryableCodes]
      [] error.type = "ValidationError" -> [type |-> "validation", isRetryable |-> FALSE]
      [] OTHER -> [type |-> "service", isRetryable |-> FALSE]

\* withRetry(operation), given what operation() does on each attempt: the
\* value or error it ends with and the attempts made.  The delays between
\* attempts (1000 ms doubled per attempt) are not represented.
withRetry(attemptResults) ==
    LET run[attempt \in 0..maxRetries] ==
            LET r == attemptResults[attempt + 1]
            IN  IF ~r.throws
                THEN [throws |-> FALSE, value |-> r.value, attempts |-> attempt + 1]
                ELSE IF ~classifyError(r.error).isRetryable \/ attempt = maxRetries
                THEN [throws |-> TRUE, error |-> r.error, attempts |-> attempt + 1]
                ELSE run[attempt + 1]
    IN  run[0]

\* How the database answers one attempt of getHierarchicalData: rows, a
\* failing connection check, or a query error with a retryable or a
\* non-retryable code.
QueryOutcomes ==
    {[kind |-> "data", data |-> SingleRows],
     [kind |-> "unreachable"],
     [kind |-> "error", code |-> "PGRST301"],
     [kind |-> "error", code |-> "42501"]}

enhanceError(error, context) ==
    IF error.type = "DatabaseError" THEN error
    ELSE DatabaseError(context, classifyError(error).type)

\* The function getHierarchicalData hands to withRetry: its try block throws
\* on a failing connection check or query, and its catch block returns every
\* such error inside the result.
HierarchicalDataAttempt(q) ==
    CASE q.kind = "data" ->
            [throws |-> FALSE, value |-> [data |-> q.data, error |-> Null]]
      [] q.kind = "unreachable" ->
            [throws |-> FALSE,
             value |-> [data |-> Null,
                        error |-> enhanceError(NetworkError("Database connection failed"),
                                               "getHierarchicalData")]]
      [] q.kind = "error" ->
            [throws |-> FALSE,
             value |-> [data |-> Null,
                        error |-> enhanceError(DatabaseError("Failed to fetch hierarchical data",
                                                             q.code),
                                               "getHierarchicalData")]]

Running == running[[op |-> "operation", mode |-> "closed"]]
             + running[[op |-> "operation", mode |-> "half-open"]]
             + running[[op |-> "getHierarchicalData", mode |-> "closed"]]
             + running[[op |-> "getHierarchicalData", mode |-> "half-open"]]

BreakerUnchanged ==
    UNCHANGED <<buildVars, rankVars, cache, calls, fetchCount, returned, stores, order,
                hookVars, unifiedVars, clearVars>>

\* execute(operation) up to its await: rejected by the open breaker, or the
\* operation is invoked.  `op` is the kind of operation: any function that
\* returns a promise, or the body of getHierarchicalData.
Execute(op) ==
    LET admit == Admit(breaker, now)
        kind == [op |-> op, mode |-> admit.breaker.state]
    IN  /\ breaker' = admit.breaker
        /\ IF admit.admitted
           THEN /\ Running < MaxRunning
                /\ running' = [running EXCEPT ![kind] = @ + 1]
                /\ breakerEvent' = [kind |-> "invoked", op |-> op, mode |-> kind.mode]
           ELSE /\ running' = running
                /\ breakerEvent' = [kind |-> "rejected", op |-> op, error |-> admit.error]
        /\ UNCHANGED <<now, throwsInARow, failedQueriesInARow>>
        /\ BreakerUnchanged

\* An operation given to execute resolves.
OperationResolves(mode) ==
    LET kind == [op |-> "operation", mode |-> mode]
    IN  /\ running[kind] > 0
        /\ running' = [running EXCEPT ![kind] = @ - 1]
        /\ breaker' = onSuccess(breaker)
        /\ throwsInARow' = 0
        /\ breakerEvent' = [kind |-> "resolved", op |-> "operation", mode |-> mode]
        /\ UNCHANGED <<now, failedQueriesInARow>>
        /\ BreakerUnchanged

\* An operation given to execute throws.
OperationThrows(mode) ==
    LET kind == [op |-> "operation", mode |-> mode]
    IN  /\ running[kind] > 0
        /\ breaker.failures < MaxFailures
        /\ running' = [running EXCEPT ![kind] = @ - 1]
        /\ breaker' = onFailure(breaker, now)
        /\ throwsInARow' = throwsInARow + 1
        /\ breakerEvent' = [kind |-> "threw", op |-> "operation", mode |-> mode]
        /\ UNCHANGED <<now, failedQueriesInARow>>
        /\ BreakerUnchanged

\* The database answers a getHierarchicalData call (the same way on every
\* attempt withRetry makes); execute sees what withRetry ends with.
HierarchicalDataSettles(mode, q) ==
    LET kind == [op |-> "getHierarchicalData", mode |-> mode]
        ended == withRetry([i \in 1..(maxRetries + 1) |-> HierarchicalDataAttempt(q)])
        failed == q.kind # "data"
    IN  /\ running[kind] > 0
        /\ failed => failedQueriesInARow < MaxFailures
        /\ running' = [running EXCEPT ![kind] = @ - 1]
        /\ breaker' = IF ended.throws THEN onFailure(breaker, now) ELSE onSuccess(breaker)
        /\ throwsInARow' = IF ended.throws THEN throwsInARow + 1 ELSE 0
        /\ failedQueriesInARow' = IF failed THEN failedQueriesInARow + 1 ELSE 0
        /\ breakerEvent' = [kind |-> IF ended.throws THEN "threw" ELSE "resolved",
                            op |-> "getHierarchicalData", mode |-> mode,
                            attempts |-> ended.attempts, failed |-> failed,
                            retryable |-> q.kind \in {"unreachable"} \/
                                          (q.kind = "error" /\ q.code \in retryableCodes)]
        /\ UNCHANGED now
        /\ BreakerUnchanged

\* Time passes: instants 0, timeout, timeout + 1, ... of the breaker's clock.
BreakerTick ==
    LET periods == now \div timeout
        drift == now % timeout
    IN  /\ periods + drift < MaxTicks
        /\ now' = IF periods = drift THEN now + timeout ELSE now + 1
        /\ breakerEvent' = [kind |-> "tick"]
        /\ UNCHANGED <<breaker, running, throwsInARow, failedQueriesInARow>>
        /\ BreakerUnchanged

NextBreaker ==
    \/ \E op \in {"operation", "getHierarchicalData"} : Execute(op)
    \/ \E mode \in {"closed", "half-open"} : OperationResolves(mode)
    \/ \E mode \in {"closed", "half-open"} : OperationThrows(mode)
    \/ \E mode \in {"closed", "half-open"}, q \in QueryOutcomes : HierarchicalDataSettles(mode, q)
    \/ BreakerTick

SpecBreaker == Init /\ [][NextBreaker]_vars

Executed == breakerEvent'.kind \in {"invoked", "rejected"}
Threw == breakerEvent'.kind = "threw"
Resolved == breakerEvent'.kind = "resolved"

\* The parts of C26 that do not depend on what else runs: five throws in a
\* row open the breaker; an open breaker rejects, without invoking, up to and
\* including 60000 ms after the last failure, and invokes in half-open state
\* later than that; a success resets the count and closes the breaker.
BreakerProtocol ==
    /\ (Threw /\ throwsInARow' >= 5) => breaker'.state = "open"
    /\ (Executed /\ breaker.state = "open" /\ now - breaker.lastFailureTime <= 60000) =>
          /\ breakerEvent'.kind = "rejected"
          /\ breakerEvent'.error = ServiceError("Circuit breaker is open", NoError)
          /\ running' = running
          /\ breaker' = breaker
    /\ (Executed /\ breaker.state = "open" /\ now - breaker.lastFailureTime > 60000) =>
          /\ breakerEvent'.kind = "invoked"
          /\ breakerEvent'.mode = "half-open"
          /\ breaker'.state = "half-open"
    /\ Resolved => breaker'.failures = 0 /\ breaker'.state = "closed"

C26_ClosedAfterHalfOpenFailure ==
    /\ breakerEvent.kind = "threw"
    /\ breakerEvent.mode = "half-open"
    /\ breaker.state = "closed"
    /\ breaker.failures = 1

QueryFailed ==
    /\ breakerEvent'.kind \in {"resolved", "threw"}
    /\ breakerEvent'.op = "getHierarchicalData"
    /\ breakerEvent'.failed

(* C27 (as stated): a failing query inside getHierarchicalData is a failure *)
(* for withRetry and for the breaker: it is attempted again when its error  *)
(* is retryable, the breaker counts it, and the fifth failing call in a row *)
(* opens the breaker.                                                         *)
C27_FailingQueryRetriedAndCounted ==
    [][QueryFailed =>
          /\ breakerEvent'.retryable => breakerEvent'.attempts = maxRetries + 1
          /\ breaker'.failures = breaker.failures + 1
          /\ failedQueriesInARow' >= 5 => breaker'.state = "open"]_vars

\* What holds instead: every getHierarchicalData call, whatever its query
\* did, ends after one attempt and is a success for the breaker.
C27_FailingQueryIsASuccessForTheBreaker ==
    [][(breakerEvent'.kind \in {"resolved", "threw"} /\ breakerEvent'.op = "getHierarchicalData")
          => /\ breakerEvent'.kind = "resolved"
             /\ breakerEvent'.attempts = 1
             /\ breaker'.failures = 0
             /\ breaker'.state = "closed"]_vars

\* Five getHierarchicalData calls in a row had a failing query, the last with
\* a retryable error, and the breaker is closed with no failure counted.
C27_FiveFailedQueriesBreakerClosed ==
    /\ failedQueriesInARow >= 5
    /\ breakerEvent.kind = "resolved"
    /\ breakerEvent.retryable
    /\ breaker.state = "closed"
    /\ breaker.failures = 0

(**************************** performance bands ***************************)
PerformanceLevels == {"excellent", "good", "average", "poor"}

\* What getWorkersByPerformance(level) returns for the built tree.
WorkersOfLevel(level) ==
    Derived([op |-> "getWorkersByPerformance", term |-> <<>>, level |-> level], tree).value

\* The levels whose result holds the node.
LevelsReturning(node) ==
    {level \in PerformanceLevels :
        \E j \in 1..Len(WorkersOfLevel(level)) : WorkersOfLevel(level)[j] = node}

(* C28: for every built tree, every flattened node is in the result of      *)
(* getWorkersByPerformance for exactly one of the four levels, the four     *)
(* results together are as long as the flattened tree, and the composite    *)
(* score of every node lies within 0..100.                                  *)
C28_BandsPartitionFlattenedTree ==
    LET flattened == flattenHierarchy(tree)
    IN  /\ \A i \in 1..Len(flattened) :
              LET score == calculateOverallPerformanceScore(flattened[i])
              IN  /\ Cardinality(LevelsReturning(flattened[i])) = 1
                  /\ score.num >= 0
                  /\ score.num <= 100 * score.den
        /\ Len(WorkersOfLevel("excellent")) + Len(WorkersOfLevel("good"))
              + Len(WorkersOfLevel("average")) + Len(WorkersOfLevel("poor")) = Len(flattened)

\* A band was asked of a tree whose nodes fall in at least two bands, one of
\* them with a score between 60 and 70; it returned some nodes and left out
\* others.
C28_Witness ==
    /\ queried.op = "getWorkersByPerformance"
    /\ queried.result.value # <<>>
    /\ Len(queried.result.value) < Len(flattenHierarchy(tree))
    /\ \E i \in 1..Len(flattenHierarchy(tree)) :
          FourTimesScore(flattenHierarchy(tree)[i]) = 270

(**************************** fetchData's guard ***************************)
\* The promise of a gateway fetch settles and a queued continuation runs.
HookFairness ==
    /\ WF_vars(\E i \in 1..MaxHookCalls, outcome \in HookOutcomes : DataFetchSettles(i, outcome))
    /\ WF_vars(\E i \in 1..MaxHookCalls : ContinueFetchData(i))
    /\ WF_vars(\E i \in 1..MaxHookCalls, outcome \in HookOutcomes : FlattenedFetchSettles(i, outcome))
    /\ WF_vars(\E outcome \in HookOutcomes : StatsFetchSettles(outcome))

SpecHookFair == Init /\ [][NextHook]_vars /\ HookFairness

\* fetchData was invoked in this step (directly or by refreshData).
FetchDataInvoked == hookEvent'.kind \in {"fetchData", "refreshData"}
\* An invocation of fetchData ran its finally clause in this step.
FetchDataEnded == Len(fetching') < Len(fetching)

\* Every invocation past the guard reaches its finally clause, which sets
\* loading to false.
C29_LoadingEventuallyFalse ==
    /\ \A n \in 1..MaxHookCalls : (Len(fetching) = n) ~> (Len(fetching) < n)
    /\ [][FetchDataEnded => ~hook'.loading]_vars

\* A rejected service call of fetchData sets error and leaves data and
\* flattenedData as they were.
C29_RejectedFetchSetsError ==
    [][hookEvent'.kind \in PrimaryFailures =>
          /\ hook'.error # Null
          /\ hook'.data = hook.data
          /\ hook'.flattenedData = hook.flattenedData]_vars

\* What the guard does: an invocation through a callback that captured
\* loading = true starts no service call.
C29_GuardReadsCapturedFlag ==
    [][(FetchDataInvoked /\ rendered.loading) => "fetchData" \notin hookEvent'.started]_vars

(* C29 (as stated): every fetchData invocation that sets loading to true    *)
(* eventually sets it back to false; while loading is true a further        *)
(* fetchData invocation starts no service call; a rejected fetch sets error *)
(* and leaves data and flattenedData at their previous values.              *)
C29_LoadingGuardsFetchData ==
    /\ C29_LoadingEventuallyFalse
    /\ [][(FetchDataInvoked /\ hook.loading) => "fetchData" \notin hookEvent'.started]_vars
    /\ C29_RejectedFetchSetsError

\* Two invocations of fetchData are past the guard at once.
C29_TwoFetchesInProgress ==
    /\ Len(fetching) = 2
    /\ hook.loading
    /\ hookEvent.kind = "fetchData"

(************************ data and flattenedData ***************************)
(* C30 (as stated): data and flattenedData always describe the same tree:   *)
(* flattenedData is the pre-order flattening of the tree held in data,      *)
(* under every interleaving with clearCache, refreshData, cache expiry and  *)
(* other fetches in progress.                                                *)
C30_FlattenedDataMatchesData == hook.flattenedData = flattenHierarchy(hook.data)

\* What holds instead: when getFlattenedHierarchy is served from the cache,
\* the two states are set from the same tree.
C30_MatchWhenFlattenedFromCache ==
    [][(hookEvent'.kind = "fetchDataDone" /\ ContinuationQueued)
          => hook'.flattenedData = flattenHierarchy(hook'.data)]_vars

\* fetchData has completed with data from the tree that expired between its
\* two service calls and flattenedData from the tree fetched in its place.
C30_StatesFromDifferentTrees ==
    /\ hookEvent.kind = "fetchDataDone"
    /\ hook.data # <<>>
    /\ hook.flattenedData # flattenHierarchy(hook.data)
    /\ hook.flattenedData = flattenHierarchy(cache[CacheIndex(cache, HookKey)].data)

=============================================================================
